---- MODULE Spec2Model ----
(***************************************************************************)
(* Model of the category/link resolution engine of                         *)
(* huaweicloud-service-xmind-translate:                                    *)
(*   src/src/scraper/api_category_fetcher.py  (APICategoryFetcher)         *)
(*   src/src/cli.py, src/src/step2_main.py    (the step 2 loop)            *)
(*                                                                         *)
(* A URL  https://support.huaweicloud.com/<dir>/<file>.html  is the tuple  *)
(* <<base, code, fam, num>>:  base "api-" is the directory /api-{code}/,   *)
(* base "api/" is /api/{code}/, base "doc" is /{code}/, base "pk" is       *)
(* /progressive_knowledge/; the file {code}_{fam}_{num:04d}.html has       *)
(* family fam and number num, every other file has number 0 and its name   *)
(* as family.  An href of a page is the same tuple (urljoin of BASE_URL    *)
(* and a site-absolute path only prepends the origin).                     *)
(*                                                                         *)
(* The site is the environment: every request is answered by a transport   *)
(* error, a non-200 status or status 200 with one of the page bodies of    *)
(* Pages(code).                                                            *)
(***************************************************************************)
EXTENDS Integers, Sequences, FiniteSets, TLC

\* ------------------------------------------------------------------ bounds
MaxProducts == 2

\* probing: range(1, MaxLowId + 1) and range(1, MaxHundredId + 1)
MaxLowId == 2

MaxHundredId == 1

\* ------------------------------------------------------------------ URLs
U(base, code, fam, num) == <<base, code, fam, num>>

NoUrl == <<"none", "", "", 0>>

\* a doc_url that is a JSON number: truthy, not a string
NonStrUrl == <<"nonstr", "", "", 5>>

DocUrl(code) == U("doc", code, "index", 0)

IsStr(url) == url[1] \notin {"none", "nonstr"}

\* ------------------------------------------------------------------ link texts
\* Chinese words of the source are written in pinyin: cankao (reference),
\* gailan (overview), ruhediaoyong (how to call), jiekou (interface),
\* shangyipian (previous), bangzhuzhongxin (help center); shili and
\* jingxiang are names of ordinary categories.
\* the keywords of the source that occur in a link text (case-sensitive)
Subs(text) ==
    CASE text = "APIcankao"     -> {"APIcankao", "API", "cankao"}
      [] text = "API"         -> {"API"}
      [] text = "APIgailan"     -> {"APIgailan", "API", "gailan"}
      [] text = "ruhediaoyongAPI" -> {"ruhediaoyong", "API"}
      [] text = "cankao"        -> {"cankao"}
      [] text = "cankaoAPI"     -> {"cankao", "API"}
      [] text = "Reference"   -> {"Reference"}
      [] text = "shangyipian"      -> {"shangyipian"}
      [] OTHER                -> {}

\* str.lower() on a keyword
LowerKw(kw) ==
    CASE kw = "APIcankao"   -> "apicankao"
      [] kw = "API"       -> "api"
      [] kw = "Reference" -> "reference"
      [] OTHER            -> kw

\* the keywords that occur in text.lower()
LowerSubs(text) == {LowerKw(kw) : kw \in Subs(text)}

AnyIn(kws, text) == kws \cap Subs(text) # {}

AnyInLower(kws, text) == kws \cap LowerSubs(text) # {}

\* ------------------------------------------------------------------ pages
Link(text, href) == [text |-> text, href |-> href]

\* a table of an overview page: whether the header row has one of the
\* keywords, and per body row the link of the row (first cell first)
Table(hdr, rows) == [hdr |-> hdr, rows |-> rows]

Page(len, flags, title, links, tables) ==
    [len |-> len, captcha |-> "captcha" \in flags,
     redirect |-> "redirect" \in flags, e404 |-> "404" \in flags,
     helpc |-> "help" \in flags, title |-> title,
     links |-> links, tables |-> tables, h1 |-> "", uri |-> ""]

pgBlank == Page(2000, {}, "API", <<>>, <<>>)

pgShort == Page(500, {}, "", <<>>, <<>>)

pgEdge == Page(1000, {}, "API", <<>>, <<>>)

pgCaptcha == Page(2000, {"captcha"}, "", <<>>, <<>>)

pgRedirect == Page(2000, {"redirect"}, "", <<>>, <<>>)

pg404 == Page(2000, {"404"}, "404", <<>>, <<>>)

\* product home page that links to the API documentation
pgHome(c) == Page(2000, {}, "API", <<Link("APIcankao", U("api-", c, "index", 0))>>, <<>>)

\* product home page that links to a progressive_knowledge page
pgHomePK(c) == Page(2000, {}, "API", <<Link("shili", U("pk", c, "guide", 0))>>, <<>>)

\* progressive_knowledge page with an API overview link and the overview
\* table of categories (one URL listed twice)
pgProg(c) ==
    Page(2000, {}, "API", <<Link("APIgailan", U("api-", c, "03", 5))>>,
         <<Table(TRUE, <<Link("shili", U("api-", c, "03", 1)),
                         Link("jingxiang", U("api-", c, "03", 2)),
                         Link("shili", U("api-", c, "03", 1))>>)>>)

\* overview page with a plain list of category links
pgList(c) ==
    Page(2000, {}, "API",
         <<Link("shili", U("api-", c, "03", 1)),
           Link("API", U("api-", c, "03", 0)),
           Link("shili", U("api-", c, "03", 1))>>, <<>>)

\* directory page of the spec's example: _0001, _0002 and the directory
pgDir(b, c) ==
    Page(2000, {}, "API",
         <<Link("shili", U(b, c, "02", 1)),
           Link("jingxiang", U(b, c, "02", 2)),
           Link("API", U(b, c, "02", 0))>>, <<>>)

\* directory page of the same three files whose first entry is titled "API"
pgDirApi(b, c) ==
    Page(2000, {}, "API",
         <<Link("API", U(b, c, "02", 1)),
           Link("jingxiang", U(b, c, "02", 2)),
           Link("API", U(b, c, "02", 0))>>, <<>>)

\* directory page with the same links and the word captcha in its body
pgCaptchaDir(b, c) ==
    Page(2000, {"captcha"}, "API",
         <<Link("shili", U(b, c, "02", 1)),
           Link("jingxiang", U(b, c, "02", 2)),
           Link("API", U(b, c, "02", 0))>>, <<>>)

\* directory page that only links to an API overview page
pgDirOv(b, c) == Page(2000, {}, "API", <<Link("APIgailan", U(b, c, "topic", 1))>>, <<>>)

\* directory page with an API overview link and a subcategory of its own
pgDirBoth(b, c) ==
    Page(2000, {}, "API",
         <<Link("APIgailan", U(b, c, "topic", 1)),
           Link("shili", U(b, c, "02", 1))>>, <<>>)

\* API overview page with topic_ subcategories
pgOv(b, c) ==
    Page(2000, {}, "API",
         <<Link("shili", U(b, c, "topic", 2)),
           Link("jingxiang", U(b, c, "topic", 2))>>, <<>>)

\* "API reference" page that links to API directories
pgRef(b, c) ==
    Page(2000, {}, "API",
         <<Link("API", U(b, c, "02", 10)),
           Link("API", U(b, c, "api", 0))>>, <<>>)

\* side menu with a "reference" entry
pgMenu(c) == Page(2000, {}, "API", <<Link("cankao", U("api-", c, "index", 0))>>, <<>>)

Bases == {"api-", "api/"}

Pages(c) ==
    {pgBlank, pgShort, pgEdge, pgCaptcha, pgRedirect, pg404,
     pgHome(c), pgHomePK(c), pgProg(c), pgList(c), pgMenu(c),
     pgDirOv("api-", c), pgOv("api-", c), pgRef("api-", c),
     pgDirApi("api-", c), pgCaptchaDir("api-", c), pgDirBoth("api-", c)}
    \cup {pgDir(b, c) : b \in Bases}

\* ------------------------------------------------------------------ responses
RErr == [status |-> "err", page |-> pgBlank]

RBad == [status |-> "bad", page |-> pgBlank]

ROk(page) == [status |-> "ok", page |-> page]

\* what the site may answer to one request
Responses(c) == {RErr, RBad} \cup {ROk(pg) : pg \in Pages(c)}

\* engines holds the objects of a program that runs several
\* APICategoryFetcher instances side by side (ParSpec); the sequential
\* program has the single object whose fields are the other variables
VARIABLES products, site, lines, i, results, visited_urls, stack, ret, api_doc_url,
          categories, attempted, gf, requested, lastReq, raised, engines

vars == <<products, site, lines, i, results, visited_urls, stack, ret, api_doc_url,
          categories, attempted, gf, requested, lastReq, raised, engines>>


\* the answers the site gives while the program runs; session.get raises
\* before any I/O when the URL is not a string
Answers(url, c) == IF IsStr(url) THEN site ELSE {RErr}

\* ------------------------------------------------------------------ helpers
\* first element of seq that satisfies Test, or dflt
First(seq, Test(_), dflt) ==
    LET sel == SelectSeq(seq, Test) IN IF sel = <<>> THEN dflt ELSE Head(sel)

\* the product list read from products.json
Product(code, doc) == [product_code |-> code, name |-> doc[1], doc_url |-> doc]

ProductPool ==
    {Product("ecs", DocUrl("ecs")), Product("ecs", NonStrUrl),
     Product("", DocUrl("ecs")), Product("ecs", NoUrl)}

\* a site: the answers it gives while the program runs, two at most
Sites == {{a, b} : a, b \in Responses("ecs")}

ProductLists == UNION {[1..n -> ProductPool] : n \in 1..MaxProducts}

\* a category node
Node(name, url) ==
    [name |-> name, url |-> url, category_id |-> <<url[3], url[4]>>,
     subcategories |-> <<>>, apis |-> <<>>]

\* one activation record of the call stack
Frame(fn, pc, url, code) ==
    [fn |-> fn, pc |-> pc, url |-> url, code |-> code, base |-> "",
     k |-> 0, urls |-> <<>>, acc |-> <<>>, aux |-> NoUrl,
     node |-> Node("", NoUrl), level |-> 0]

Top == stack[Len(stack)]

SetTop(f) == [stack EXCEPT ![Len(stack)] = f]

Pop == SubSeq(stack, 1, Len(stack) - 1)

\* replace the caller's frame by f and push the callee g
Call(f, g) == Append(SetTop(f), g)

At(fn, pc) == Top.fn = fn /\ Top.pc = pc

NoRet == [none |-> FALSE, url |-> NoUrl, list |-> <<>>]

RetList(l) == [none |-> FALSE, url |-> NoUrl, list |-> l]

RetUrl(u) == [none |-> FALSE, url |-> u, list |-> <<>>]

NoGf == [url |-> NoUrl, trace |-> <<>>]

\* no answer: the last step made no request
NoResp == [status |-> "", page |-> pgBlank]

NoReq == [url |-> NoUrl, wasVisited |-> FALSE, again |-> FALSE, resp |-> NoResp]

\* ------------------------------------------------------------------ requests
\* bookkeeping of one request to the site and of its answer r: retry marks
\* the second and third attempt of a guarded fetch, which count with the
\* first one; session.get raises before any I/O when the URL is not a string
Request(url, retry, r) ==
    IF ~IsStr(url)
    THEN lastReq' = NoReq /\ UNCHANGED requested
    ELSE /\ lastReq' = [url |-> url,
                        wasVisited |-> (url \in visited_urls) /\ ~retry,
                        again |-> (url \in requested) /\ ~retry,
                        resp |-> r]
         /\ requested' = requested \cup {url}

\* ------------------------------------------------------------------ Init
Init ==
    /\ products \in ProductLists
    /\ site \in Sites
    /\ Len(products) > 1 => Cardinality(site) = 1
    /\ lines = <<>>
    /\ i = 1
    /\ results = <<>>
    /\ visited_urls = {}
    /\ stack = <<Frame("main", "loop", NoUrl, "")>>
    /\ ret = NoRet
    /\ api_doc_url = NoUrl
    /\ categories = <<>>
    /\ attempted = <<>>
    /\ gf = NoGf
    /\ requested = {}
    /\ lastReq = NoReq
    /\ raised = FALSE
    /\ engines = <<>>

\* ------------------------------------------------------------------ step 2 loop
\* a product without product code or doc URL is skipped
LoopSkip ==
    /\ At("main", "loop")
    /\ i <= Len(products)
    /\ products[i].product_code = "" \/ products[i].doc_url = NoUrl
    /\ i' = i + 1
    /\ UNCHANGED <<products, site, lines, results, visited_urls, stack, ret, api_doc_url, categories, attempted, requested, raised, engines>>
    /\ gf' = NoGf
    /\ lastReq' = NoReq

\* result = fetcher.fetch_api_categories(product_code, doc_url)
LoopCall ==
    /\ At("main", "loop")
    /\ i <= Len(products)
    /\ products[i].product_code # "" /\ products[i].doc_url # NoUrl
    /\ stack' = Call([Top EXCEPT !.pc = "after_call"],
                     Frame("fetch_api_categories", "find",
                           products[i].doc_url, products[i].product_code))
    /\ api_doc_url' = NoUrl
    /\ categories' = <<>>
    /\ attempted' = <<>>
    /\ gf' = NoGf
    /\ requested' = {}
    /\ lastReq' = NoReq
    /\ ret' = NoRet
    /\ UNCHANGED <<products, site, lines, i, results, visited_urls, raised, engines>>

ErrorRecord(p) ==
    [product_code |-> p.product_code, product_name |-> p.name,
     api_doc_url |-> NoUrl, categories |-> <<>>, error |-> "e"]

EmptyRecord(p) ==
    [product_code |-> p.product_code, product_name |-> p.name,
     api_doc_url |-> NoUrl, categories |-> <<>>, error |-> ""]

ResultRecord(p, r) ==
    [product_code |-> p.product_code, product_name |-> p.name,
     api_doc_url |-> r.url, categories |-> r.list, error |-> ""]

\* LoopRecord of a loop that an exception ends
LoopRecordAbort ==
    /\ At("main", "after_call")
    /\ results' = Append(results,
                    IF raised THEN ErrorRecord(products[i])
                    ELSE IF ~ret.none /\ ret.list # <<>>
                         THEN ResultRecord(products[i], ret)
                         ELSE EmptyRecord(products[i]))
    /\ raised' = FALSE
    /\ ret' = NoRet
    /\ i' = IF raised THEN Len(products) + 1 ELSE i + 1
    /\ stack' = SetTop([Top EXCEPT !.pc = "loop"])
    /\ UNCHANGED <<products, site, lines, visited_urls, api_doc_url, categories, attempted, requested, engines>>
    /\ gf' = NoGf
    /\ lastReq' = NoReq

\* the three branches after the call: categories found, none found, except
LoopRecord ==
    /\ At("main", "after_call")
    /\ results' = Append(results,
                    IF raised THEN ErrorRecord(products[i])
                    ELSE IF ~ret.none /\ ret.list # <<>>
                         THEN ResultRecord(products[i], ret)
                         ELSE EmptyRecord(products[i]))
    /\ raised' = FALSE
    /\ ret' = NoRet
    /\ i' = i + 1
    /\ stack' = SetTop([Top EXCEPT !.pc = "loop"])
    /\ UNCHANGED <<products, site, lines, visited_urls, api_doc_url, categories, attempted, requested, engines>>
    /\ gf' = NoGf
    /\ lastReq' = NoReq

\* ------------------------------------------------------------------ strategy log
\* the strategies of one run in the order they were started, each with the
\* list it returned
Started(log, name) == Append(log, [name |-> name, done |-> FALSE, res |-> <<>>])

Finished(log, res) == [log EXCEPT ![Len(log)] = [@ EXCEPT !.done = TRUE, !.res = res]]

\* ------------------------------------------------------------------ pure parts
\* _find_api_doc_url: the first link with an API keyword in its text and
\* '/api-' or 'api-reference' in its href; every other branch returns None
IsApiDocLink(l) ==
    /\ AnyInLower({"api", "jiekou", "cankao", "reference"}, l.text)
    /\ l.href[1] = "api-" \/ l.href[3] = "api-reference"

FindApiDocLink(page) == First(page.links, IsApiDocLink, Link("", NoUrl)).href

possible_urls(c) ==
    <<U("api-", c, "", 0), U("api-", c, "index", 0), U("api/", c, "", 0),
      U("api/", c, "index", 0), U("doc", c, "api-reference", 0)>>

test_patterns(c) ==
    <<U("api-", c, "zh-cn_topic", 20805967), U("api-", c, "zh-cn_topic", 20212668),
      U("api-", c, "02", 1), U("api-", c, "02", 0),
      U("api/", c, "02", 1), U("api/", c, "02", 0)>>

\* _build_api_doc_url that gives up when every candidate failed
fallback_none(c) == NoUrl

\* the URL _build_api_doc_url returns when every candidate failed
fallback_url(c) == U("api/", c, "", 0)

\* "/api/{product_code}/" in url
InApiSlash(url, c) == url[1] = "api/" /\ url[2] = c

_get_api_base_path(url, c) == IF url # NoUrl /\ InApiSlash(url, c) THEN "api/" ELSE "api-"

\* api_base_path in href
UnderBase(href, b, c) == href[1] = b /\ href[2] = c

_get_api_product_code(c) == IF c = "cloudpipeline" THEN "pipeline" ELSE c

\* AddUnique that lets a later node with the same URL take the place of the
\* earlier one
AddUniqueLatest(list, node) ==
    IF \E j \in 1..Len(list) : list[j].url = node.url
    THEN [j \in 1..Len(list) |-> IF list[j].url = node.url THEN node ELSE list[j]]
    ELSE Append(list, node)

\* append a node unless a node with its URL is in the list
AddUnique(list, node) ==
    IF \E j \in 1..Len(list) : list[j].url = node.url THEN list ELSE Append(list, node)

RECURSIVE AddAllUnique(_, _)
AddAllUnique(list, nodes) ==
    IF nodes = <<>> THEN list
    ELSE AddAllUnique(AddUnique(list, Head(nodes)), Tail(nodes))

LinkNodes(links) == [j \in 1..Len(links) |-> Node(links[j].text, links[j].href)]

\* _extract_categories_from_api_overview, method 1: the rows of every table
\* whose header has a keyword; '/api-' in the URL; no URL twice
RECURSIVE ExtractTables(_, _)
ExtractTables(cats, tables) ==
    IF tables = <<>> THEN cats
    ELSE LET t == Head(tables)
             ok(l) == l.href[1] = "api-"
             rows == IF t.hdr THEN SelectSeq(t.rows, ok) ELSE <<>>
         IN ExtractTables(AddAllUnique(cats, LinkNodes(rows)), Tail(tables))

list_exclude_keywords ==
    {"shangyipian", "xiayipian", "biao", "chakanPDF", "PDF", "#", "javascript:",
     "shangyiye", "xiayiye", "APIcankao", "gailan", "ruhediaoyong"}

\* method 2 (and the pipeline branch of the progressive_knowledge lookup):
\* links {ac}_03_XXXX under /api-{ac}/, XXXX not 0000 or 0005; no URL twice
ExtractList(links, ac) ==
    LET ok(l) == /\ l.text # ""
                 /\ ~AnyIn(list_exclude_keywords, l.text)
                 /\ UnderBase(l.href, "api-", ac)
                 /\ l.href[3] = "03"
                 /\ l.href[4] \notin {0, 5}
    IN AddAllUnique(<<>>, LinkNodes(SelectSeq(links, ok)))

\* _extract_categories_from_api_overview on the answer of its request
_extract_categories_from_api_overview(r, ac) ==
    IF r.status # "ok" THEN <<>>
    ELSE LET byTable == ExtractTables(<<>>, r.page.tables)
         IN IF byTable # <<>> THEN byTable ELSE ExtractList(r.page.links, ac)

\* the progressive_knowledge link of the product home page
IsProgLink(l) == l.href[1] = "pk"

\* the API overview link of the progressive_knowledge page
IsPkOverviewLink(l) ==
    l.href[1] = "api-" /\ ("gailan" \in Subs(l.text) \/ "overview" \in LowerSubs(l.text))

possible_api_overview_urls(ac) ==
    <<U("api-", ac, "03", 5), U("api-", ac, "03", 0), U("api-", ac, "02", 0)>>

\* ------------------------------------------------------------------ fetch_api_categories
loopVars == <<products, site, lines, i, results, engines>>

\* FacAfter without the tests "if not categories": every strategy runs
FacAfterNoStop(f, stage, cats, log) ==
    /\ categories' = cats
    /\ IF stage = 1
       THEN /\ stack' = Call([f EXCEPT !.pc = "after_parse1"],
                             Frame("_parse_api_categories", "enter", api_doc_url, f.code))
            /\ attempted' = log
            /\ ret' = NoRet
       ELSE IF stage = 2
       THEN /\ stack' = Call([f EXCEPT !.pc = "after_parse2"],
                             Frame("_parse_api_categories", "enter", f.url, f.code))
            /\ attempted' = log
            /\ ret' = NoRet
       ELSE IF stage = 3
       THEN /\ stack' = SetTop([f EXCEPT !.pc = "menu", !.k = 1])
            /\ attempted' = Started(log, "menu")
            /\ ret' = NoRet
       ELSE /\ stack' = Pop
            /\ attempted' = log
            /\ ret' = [none |-> FALSE, url |-> api_doc_url, list |-> cats]

\* the code after one strategy of fetch_api_categories returned cats: the
\* next strategy when cats is empty, the return of the record otherwise
FacAfter(f, stage, cats, log) ==
    /\ categories' = cats
    /\ IF cats = <<>> /\ stage = 1
       THEN /\ stack' = Call([f EXCEPT !.pc = "after_parse1"],
                             Frame("_parse_api_categories", "enter", api_doc_url, f.code))
            /\ attempted' = log
            /\ ret' = NoRet
       ELSE IF cats = <<>> /\ stage = 2
       THEN /\ stack' = Call([f EXCEPT !.pc = "after_parse2"],
                             Frame("_parse_api_categories", "enter", f.url, f.code))
            /\ attempted' = log
            /\ ret' = NoRet
       ELSE IF cats = <<>> /\ stage = 3
       THEN /\ stack' = SetTop([f EXCEPT !.pc = "menu", !.k = 1])
            /\ attempted' = Started(log, "menu")
            /\ ret' = NoRet
       ELSE /\ stack' = Pop
            /\ attempted' = log
            /\ ret' = [none |-> FALSE, url |-> api_doc_url, list |-> cats]

\* if not api_doc_url: return None
FacAfterBuild(f, url) ==
    /\ api_doc_url' = url
    /\ IF url = NoUrl
       THEN stack' = Pop /\ ret' = [none |-> TRUE, url |-> NoUrl, list |-> <<>>]
       ELSE stack' = SetTop([f EXCEPT !.pc = "pk_doc", !.k = 0]) /\ ret' = NoRet

\* _find_api_doc_url: one request of the product home page
FindApiDocUrl ==
    /\ At("fetch_api_categories", "find")
    /\ \E r \in Answers(Top.url, Top.code) :
         /\ Request(Top.url, FALSE, r)
         /\ LET found == IF r.status = "ok" THEN FindApiDocLink(r.page) ELSE NoUrl
            IN IF found # NoUrl
               THEN FacAfterBuild(Top, found)
               ELSE /\ stack' = SetTop([Top EXCEPT !.pc = "build", !.k = 1])
                    /\ UNCHANGED <<api_doc_url, ret>>
    /\ UNCHANGED <<loopVars, visited_urls, categories, attempted, raised>>
    /\ gf' = NoGf

\* _build_api_doc_url, first loop: the first candidate that answers 200
\* with more than 1000 characters and no 404 in its head
BuildPossible ==
    /\ At("fetch_api_categories", "build")
    /\ LET url == possible_urls(Top.code)[Top.k] IN
       \E r \in Answers(url, Top.code) :
         /\ Request(url, FALSE, r)
         /\ IF r.status = "ok" /\ r.page.len > 1000 /\ ~r.page.e404
            THEN FacAfterBuild(Top, url)
            ELSE /\ stack' = SetTop(IF Top.k < Len(possible_urls(Top.code))
                                    THEN [Top EXCEPT !.k = @ + 1]
                                    ELSE [Top EXCEPT !.pc = "build_test", !.k = 1])
                 /\ UNCHANGED <<api_doc_url, ret>>
    /\ UNCHANGED <<loopVars, visited_urls, categories, attempted, raised>>
    /\ gf' = NoGf

\* _build_api_doc_url, second loop and the fallback
BuildTest ==
    /\ At("fetch_api_categories", "build_test")
    /\ LET url == test_patterns(Top.code)[Top.k] IN
       \E r \in Answers(url, Top.code) :
         /\ Request(url, FALSE, r)
         /\ IF r.status = "ok" /\ ~r.page.e404
            THEN FacAfterBuild(Top, IF InApiSlash(url, Top.code)
                                    THEN U("api/", Top.code, "", 0)
                                    ELSE U("api-", Top.code, "", 0))
            ELSE IF Top.k < Len(test_patterns(Top.code))
            THEN /\ stack' = SetTop([Top EXCEPT !.k = @ + 1])
                 /\ UNCHANGED <<api_doc_url, ret>>
            ELSE FacAfterBuild(Top, fallback_url(Top.code))
    /\ UNCHANGED <<loopVars, visited_urls, categories, attempted, raised>>
    /\ gf' = NoGf

\* _parse_api_categories_from_progressive_knowledge: the request of the
\* product home page that looks for a progressive_knowledge link
PkDoc ==
    /\ At("fetch_api_categories", "pk_doc")
    /\ \E r \in Answers(Top.url, Top.code) :
         /\ Request(Top.url, FALSE, r)
         /\ LET ac == _get_api_product_code(Top.code)
                found == IF r.status = "ok"
                         THEN First(r.page.links, IsProgLink, Link("", NoUrl)).href
                         ELSE NoUrl
                prog == IF found # NoUrl THEN found ELSE U("pk", ac, "", 0)
            IN stack' = SetTop([Top EXCEPT !.pc = "pk_prog", !.aux = prog])
    /\ attempted' = Started(attempted, "progressive_knowledge")
    /\ UNCHANGED <<loopVars, visited_urls, categories, api_doc_url, ret, raised>>
    /\ gf' = NoGf

\* the request of the progressive_knowledge page
PkProg ==
    /\ At("fetch_api_categories", "pk_prog")
    /\ \E r \in Answers(Top.aux, Top.code) :
         /\ Request(Top.aux, FALSE, r)
         /\ IF r.status # "ok"
            THEN FacAfter([Top EXCEPT !.aux = NoUrl], 1, <<>>, Finished(attempted, <<>>))
            ELSE LET ac == _get_api_product_code(Top.code)
                     ov == First(r.page.links, IsPkOverviewLink, Link("", NoUrl)).href
                     direct == IF ac = "pipeline" THEN ExtractList(r.page.links, ac) ELSE <<>>
                 IN /\ stack' = SetTop(IF ov # NoUrl
                                       THEN [Top EXCEPT !.pc = "pk_overview", !.aux = ov, !.acc = direct]
                                       ELSE [Top EXCEPT !.pc = "pk_cand", !.k = 1, !.aux = NoUrl, !.acc = direct])
                    /\ UNCHANGED <<categories, attempted, ret>>
    /\ UNCHANGED <<loopVars, visited_urls, api_doc_url, raised>>
    /\ gf' = NoGf

\* _extract_categories_from_api_overview on the overview link of the page
PkOverview ==
    /\ At("fetch_api_categories", "pk_overview")
    /\ \E r \in Answers(Top.aux, Top.code) :
         /\ Request(Top.aux, FALSE, r)
         /\ LET cats == _extract_categories_from_api_overview(r, _get_api_product_code(Top.code))
            IN IF cats # <<>>
               THEN FacAfter([Top EXCEPT !.aux = NoUrl, !.acc = <<>>], 1, cats, Finished(attempted, cats))
               ELSE /\ stack' = SetTop([Top EXCEPT !.pc = "pk_cand", !.k = 1, !.aux = NoUrl])
                    /\ UNCHANGED <<categories, attempted, ret>>
    /\ UNCHANGED <<loopVars, visited_urls, api_doc_url, raised>>
    /\ gf' = NoGf

\* the three constructed overview URLs, then the links of the
\* progressive_knowledge page itself (product pipeline only)
PkCandidate ==
    /\ At("fetch_api_categories", "pk_cand")
    /\ LET ac == _get_api_product_code(Top.code)
           url == possible_api_overview_urls(ac)[Top.k]
           f == [Top EXCEPT !.k = 0, !.acc = <<>>]
       IN \E r \in Answers(url, Top.code) :
            /\ Request(url, FALSE, r)
            /\ LET cats == _extract_categories_from_api_overview(r, ac)
               IN IF cats # <<>>
                  THEN FacAfter(f, 1, cats, Finished(attempted, cats))
                  ELSE IF Top.k < Len(possible_api_overview_urls(ac))
                  THEN /\ stack' = SetTop([Top EXCEPT !.k = @ + 1])
                       /\ UNCHANGED <<categories, attempted, ret>>
                  ELSE FacAfter(f, 1, Top.acc, Finished(attempted, Top.acc))
    /\ UNCHANGED <<loopVars, visited_urls, api_doc_url, raised>>
    /\ gf' = NoGf

\* AfterParse that returns the record after the first _parse_api_categories
AfterParseStop ==
    /\ Top.fn = "fetch_api_categories"
    /\ Top.pc \in {"after_parse1", "after_parse2"}
    /\ FacAfter(Top, 4, ret.list, attempted)
    /\ UNCHANGED <<loopVars, visited_urls, api_doc_url, requested, raised>>
    /\ gf' = NoGf
    /\ lastReq' = NoReq

\* categories = self._parse_api_categories(...) returned
AfterParse ==
    /\ Top.fn = "fetch_api_categories"
    /\ Top.pc \in {"after_parse1", "after_parse2"}
    /\ FacAfter(Top, IF Top.pc = "after_parse1" THEN 2 ELSE 3, ret.list, attempted)
    /\ UNCHANGED <<loopVars, visited_urls, api_doc_url, requested, raised>>
    /\ gf' = NoGf
    /\ lastReq' = NoReq

\* ------------------------------------------------------------------ _find_api_reference_category
\* len(path_parts) >= 2: the URL names a file below a directory
HasFile(url) == url[3] # ""

ref_exclude_keywords ==
    {"ruhediaoyong", "gailan", "gaishu", "jieshao", "shuoming", "zhinan",
     "guide", "overview", "introduction"}

\* priority 1 of _find_api_reference_category: the text has "API cankao"
IsExactRef(l, b, c) ==
    /\ UnderBase(l.href, b, c)
    /\ "APIcankao" \in Subs(l.text) \/ "apicankao" \in LowerSubs(l.text)
    /\ HasFile(l.href)

\* priority 2: the text or the href has "cankao" / "reference"
IsFuzzyRef(l, b, c) ==
    /\ l.text # ""
    /\ ~AnyIn(ref_exclude_keywords, l.text)
    /\ UnderBase(l.href, b, c)
    /\ \/ "cankao" \in Subs(l.text)
       \/ "reference" \in LowerSubs(l.text)
       \/ l.href[3] = "api-reference"
    /\ HasFile(l.href)

RefPriority(l) ==
    IF ("API" \in Subs(l.text) \/ "api" \in LowerSubs(l.text)) /\ "cankao" \in Subs(l.text)
    THEN 1 ELSE 2

\* RefCategory that takes the first link of the page that matches at all
RefCategoryFirstMatch(page, b, c) ==
    LET any(l) == IsExactRef(l, b, c) \/ IsFuzzyRef(l, b, c)
        sel == SelectSeq(page.links, any)
    IN IF sel # <<>> THEN Head(sel).href ELSE NoUrl

\* the URL of the category that one fetched page yields, or NoUrl
RefCategory(page, b, c) ==
    LET exact(l) == IsExactRef(l, b, c)
        fuzzy(l) == IsFuzzyRef(l, b, c)
        p1(l) == RefPriority(l) = 1
        ex == SelectSeq(page.links, exact)
        fz == SelectSeq(page.links, fuzzy)
        \* list.sort(key=priority) is stable
        best == SelectSeq(fz, p1)
    IN IF ex # <<>> THEN Head(ex).href
       ELSE IF best # <<>> THEN Head(best).href
       ELSE IF fz # <<>> THEN Head(fz).href
       ELSE NoUrl

ref_test_urls(url, c) ==
    <<U("api-", c, "zh-cn_topic", 20212668), U("api-", c, "02", 1), url>>

\* ------------------------------------------------------------------ _parse_api_categories
\* return of _parse_api_categories
ParseReturn(subs) ==
    /\ stack' = Pop
    /\ ret' = RetList(subs)
    /\ attempted' = Finished(attempted, subs)

\* the fallback on the API documentation page itself
StartDirect(f, log) ==
    /\ stack' = Call([f EXCEPT !.pc = "after_dirdir", !.k = 0],
                     Frame("_find_api_directory_url", "get", f.url, f.code))
    /\ attempted' = Started(log, "direct")
    /\ ret' = NoRet

\* api_base_path is computed outside the try block: a doc_url that is not a
\* string raises TypeError, which leaves fetch_api_categories; otherwise the
\* standard directory URL is built and its subcategories are fetched
ParseEnter ==
    /\ At("_parse_api_categories", "enter")
    /\ IF ~IsStr(Top.url)
       THEN /\ stack' = SubSeq(stack, 1, 1)
            /\ raised' = TRUE
            /\ UNCHANGED attempted
       ELSE LET b == _get_api_base_path(Top.url, Top.code)
                standard_api_dir_url == U(b, Top.code, "02", 0)
            IN /\ stack' = Call([Top EXCEPT !.pc = "after_std", !.base = b],
                                Frame("_fetch_subcategories_from_api_dir", "fetch",
                                      standard_api_dir_url, Top.code))
               /\ attempted' = Started(attempted, "standard")
               /\ UNCHANGED raised
    /\ UNCHANGED <<loopVars, visited_urls, api_doc_url, categories, ret, requested>>
    /\ gf' = NoGf
    /\ lastReq' = NoReq

\* ParseAfterStd without the lookup of the "API reference" category
ParseAfterStdSkipRef ==
    /\ At("_parse_api_categories", "after_std")
    /\ IF ret.list # <<>>
       THEN ParseReturn(ret.list)
       ELSE StartDirect(Top, Finished(attempted, <<>>))
    /\ UNCHANGED <<loopVars, visited_urls, api_doc_url, categories, requested, raised>>
    /\ gf' = NoGf
    /\ lastReq' = NoReq

ParseAfterStd ==
    /\ At("_parse_api_categories", "after_std")
    /\ IF ret.list # <<>>
       THEN ParseReturn(ret.list)
       ELSE /\ stack' = SetTop([Top EXCEPT !.pc = "ref", !.k = 1])
            /\ attempted' = Started(Finished(attempted, <<>>), "reference")
            /\ ret' = NoRet
    /\ UNCHANGED <<loopVars, visited_urls, api_doc_url, categories, requested, raised>>
    /\ gf' = NoGf
    /\ lastReq' = NoReq

\* _find_api_reference_category: one of its three requests
FindApiReferenceCategory ==
    /\ At("_parse_api_categories", "ref")
    /\ LET url == ref_test_urls(Top.url, Top.code)[Top.k] IN
       \E r \in Answers(url, Top.code) :
         /\ Request(url, FALSE, r)
         /\ LET found == IF r.status = "ok"
                         THEN RefCategory(r.page, Top.base, Top.code) ELSE NoUrl
            IN IF found # NoUrl
               THEN /\ stack' = Call([Top EXCEPT !.pc = "after_refdir", !.k = 0],
                                     Frame("_find_api_directory_url", "get", found, Top.code))
                    /\ UNCHANGED <<attempted, ret>>
               ELSE IF Top.k < 3
               THEN /\ stack' = SetTop([Top EXCEPT !.k = @ + 1])
                    /\ UNCHANGED <<attempted, ret>>
               ELSE StartDirect(Top, Finished(attempted, <<>>))
    /\ UNCHANGED <<loopVars, visited_urls, api_doc_url, categories, raised>>
    /\ gf' = NoGf

\* api_dir_url = self._find_api_directory_url(api_ref_category['url'], ...)
ParseAfterRefDir ==
    /\ At("_parse_api_categories", "after_refdir")
    /\ IF ret.url # NoUrl
       THEN /\ stack' = Call([Top EXCEPT !.pc = "after_refsub"],
                             Frame("_fetch_subcategories_from_api_dir", "fetch",
                                   ret.url, Top.code))
            /\ ret' = NoRet
            /\ UNCHANGED attempted
       ELSE StartDirect(Top, Finished(attempted, <<>>))
    /\ UNCHANGED <<loopVars, visited_urls, api_doc_url, categories, requested, raised>>
    /\ gf' = NoGf
    /\ lastReq' = NoReq

ParseAfterRefSub ==
    /\ At("_parse_api_categories", "after_refsub")
    /\ IF ret.list # <<>>
       THEN ParseReturn(ret.list)
       ELSE StartDirect(Top, Finished(attempted, <<>>))
    /\ UNCHANGED <<loopVars, visited_urls, api_doc_url, categories, requested, raised>>
    /\ gf' = NoGf
    /\ lastReq' = NoReq

\* api_dir_url = self._find_api_directory_url(api_doc_url, ...)
ParseAfterDirectDir ==
    /\ At("_parse_api_categories", "after_dirdir")
    /\ IF ret.url # NoUrl
       THEN /\ stack' = Call([Top EXCEPT !.pc = "after_dirsub"],
                             Frame("_fetch_subcategories_from_api_dir", "fetch",
                                   ret.url, Top.code))
            /\ ret' = NoRet
            /\ UNCHANGED attempted
       ELSE ParseReturn(<<>>)
    /\ UNCHANGED <<loopVars, visited_urls, api_doc_url, categories, requested, raised>>
    /\ gf' = NoGf
    /\ lastReq' = NoReq

ParseAfterDirectSub ==
    /\ At("_parse_api_categories", "after_dirsub")
    /\ ParseReturn(ret.list)
    /\ UNCHANGED <<loopVars, visited_urls, api_doc_url, categories, requested, raised>>
    /\ gf' = NoGf
    /\ lastReq' = NoReq

\* ------------------------------------------------------------------ _find_api_directory_url
\* _verify_url on the answer of its request
_verify_url(r) == r.status = "ok" /\ r.page.len > 1000 /\ ~r.page.redirect

\* priority 1: the href has {product_code}_02_0000
IsDirPatternLink(l, b, c) == UnderBase(l.href, b, c) /\ l.href[3] = "02" /\ l.href[4] = 0

\* priority 2: the text has "API", the file is {code}_02_00XX or {code}_api_00XX
IsApiCandidate(l, b, c) ==
    /\ l.text # ""
    /\ ~AnyIn(ref_exclude_keywords, l.text)
    /\ UnderBase(l.href, b, c)
    /\ "API" \in Subs(l.text) \/ "api" \in LowerSubs(l.text)
    /\ l.href[3] \in {"02", "api"}
    /\ l.href[4] <= 99

Hrefs(links) == [j \in 1..Len(links) |-> links[j].href]

\* the URLs _find_api_directory_url verifies, in the order it verifies them
VerifyList(page, b, c) ==
    LET p1(l) == IsDirPatternLink(l, b, c)
        cand(l) == IsApiCandidate(l, b, c)
        first(l) == l.href[4] = 0
        second(l) == l.href[4] # 0
        cands == SelectSeq(page.links, cand)
    IN Hrefs(SelectSeq(page.links, p1) \o SelectSeq(cands, first) \o SelectSeq(cands, second))

\* the candidates of _build_api_directory_url
api_dir_possible_urls(b, c) ==
    <<U(b, c, "02", 0), U(b, c, "api.html", 0), U(b, c, "index", 0)>>

FindDirReturn(url) ==
    /\ stack' = Pop
    /\ ret' = RetUrl(url)

\* the request of the "API reference" page
FindDirGet ==
    /\ At("_find_api_directory_url", "get")
    /\ \E r \in Answers(Top.url, Top.code) :
         /\ Request(Top.url, FALSE, r)
         /\ LET b == _get_api_base_path(Top.url, Top.code)
                list == IF r.status = "ok" THEN VerifyList(r.page, b, Top.code) ELSE <<>>
            IN stack' = SetTop(
                 IF r.status = "err" THEN [Top EXCEPT !.pc = "build", !.base = "api-", !.k = 1]
                 ELSE IF list = <<>> THEN [Top EXCEPT !.pc = "build", !.base = b, !.k = 1]
                 ELSE [Top EXCEPT !.pc = "verify", !.base = b, !.urls = list])
    /\ UNCHANGED <<loopVars, visited_urls, api_doc_url, categories, attempted, ret, raised>>
    /\ gf' = NoGf

\* _verify_url on the next link of the page
FindDirVerify ==
    /\ At("_find_api_directory_url", "verify")
    /\ LET url == Head(Top.urls) IN
       \E r \in Answers(url, Top.code) :
         /\ Request(url, FALSE, r)
         /\ IF _verify_url(r)
            THEN FindDirReturn(url)
            ELSE /\ stack' = SetTop(IF Tail(Top.urls) = <<>>
                                    THEN [Top EXCEPT !.pc = "build", !.urls = <<>>, !.k = 1]
                                    ELSE [Top EXCEPT !.urls = Tail(@)])
                 /\ UNCHANGED ret
    /\ UNCHANGED <<loopVars, visited_urls, api_doc_url, categories, attempted, raised>>
    /\ gf' = NoGf

\* _build_api_directory_url: _verify_url on the next constructed URL
BuildApiDirectoryUrl ==
    /\ At("_find_api_directory_url", "build")
    /\ LET url == api_dir_possible_urls(Top.base, Top.code)[Top.k] IN
       \E r \in Answers(url, Top.code) :
         /\ Request(url, FALSE, r)
         /\ IF _verify_url(r)
            THEN FindDirReturn(url)
            ELSE IF Top.k < 3
            THEN stack' = SetTop([Top EXCEPT !.k = @ + 1]) /\ UNCHANGED ret
            ELSE FindDirReturn(NoUrl)
    /\ UNCHANGED <<loopVars, visited_urls, api_doc_url, categories, attempted, raised>>
    /\ gf' = NoGf

\* ------------------------------------------------------------------ guarded fetch
max_retries == 3

\* what one pass of the retry loop adds to the trace of the fetch: the
\* outcome of the attempt, and the sleep of the except branch
AttemptEvents(r, attempt) ==
    IF r.status = "err" /\ attempt < max_retries - 1
    THEN <<"err", "sleep">> ELSE <<r.status>>

\* AttemptNext of a loop with one pass more
AttemptNextOneMore(r, attempt) ==
    IF r.status = "ok" THEN "page"
    ELSE IF attempt < max_retries THEN "retry"
    ELSE "fail"

\* how the loop goes on after the pass number attempt (from 0)
AttemptNext(r, attempt) ==
    IF r.status = "ok" THEN "page"
    ELSE IF attempt < max_retries - 1 THEN "retry"
    ELSE "fail"

GfAfter(url, r, attempt) ==
    [url |-> url,
     trace |-> (IF attempt = 0 THEN <<>> ELSE gf.trace) \o AttemptEvents(r, attempt)]

\* ------------------------------------------------------------------ _fetch_subcategories_from_api_dir
\* is_captcha_page or has_redirect
IsBlocked(page) == page.captcha \/ page.len < 1000 \/ page.redirect

IsOverviewLink(l, b, c) ==
    /\ UnderBase(l.href, b, c)
    /\ "APIgailan" \in Subs(l.text) \/ "gailan" \in Subs(l.text)
    /\ "ruhediaoyong" \notin Subs(l.text)

dir_exclude_keywords ==
    {"shangyipian", "xiayipian", "biao", "chakanPDF", "PDF", "#", "javascript:",
     "shangyiye", "xiayiye", "gailan"}

\* a link of the directory page that becomes a subcategory: its file is of
\* one of the families _02_, _api_, _03_ with a number other than 0000, or
\* a topic_ file, and its URL is not in visited_urls
IsSubcategoryLink(l, b, c, visited) ==
    /\ l.text # ""
    /\ ~AnyIn(dir_exclude_keywords, l.text)
    /\ UnderBase(l.href, b, c)
    /\ l.href \notin visited
    /\ \/ l.href[3] \in {"02", "api", "03"} /\ l.href[4] # 0
       \/ l.href[3] = "topic"

ClassifySubcategories(page, b, c, visited) ==
    LET ok(l) == IsSubcategoryLink(l, b, c, visited)
    IN AddAllUnique(<<>>, LinkNodes(SelectSeq(page.links, ok)))

ov_exclude_keywords == dir_exclude_keywords \cup {"APIcankao"}

\* a link of the overview page that becomes a subcategory: a topic_ file
IsOverviewSubcategory(l, b, c, visited) ==
    /\ l.text # ""
    /\ ~AnyIn(ov_exclude_keywords, l.text)
    /\ UnderBase(l.href, b, c)
    /\ l.href[3] = "topic"
    /\ l.href \notin visited

\* ClassifyOverview without the loop on seen_urls
ClassifyOverviewAll(page, b, c, visited) ==
    LET ok(l) == IsOverviewSubcategory(l, b, c, visited)
    IN LinkNodes(SelectSeq(page.links, ok))

ClassifyOverview(page, b, c, visited) ==
    LET ok(l) == IsOverviewSubcategory(l, b, c, visited)
    IN AddAllUnique(<<>>, LinkNodes(SelectSeq(page.links, ok)))

SubReturn(list) ==
    /\ stack' = Pop
    /\ ret' = RetList(list)

\* if api_dir_url in self.visited_urls: return subcategories
SubGuardHit ==
    /\ At("_fetch_subcategories_from_api_dir", "fetch")
    /\ Top.k = 0
    /\ Top.url \in visited_urls
    /\ SubReturn(<<>>)
    /\ UNCHANGED <<loopVars, visited_urls, api_doc_url, categories, attempted, requested, raised>>
    /\ gf' = NoGf
    /\ lastReq' = NoReq

\* SubAttempt that puts the URL into visited_urls only when the fetch
\* answered with status 200
SubAttemptMarkOnSuccess ==
    /\ At("_fetch_subcategories_from_api_dir", "fetch")
    /\ Top.k > 0 \/ Top.url \notin visited_urls
    /\ \E r \in Answers(Top.url, Top.code) :
         /\ visited_urls' = IF r.status = "ok" THEN visited_urls \cup {Top.url} ELSE visited_urls
         /\ Request(Top.url, Top.k > 0, r)
         /\ gf' = GfAfter(Top.url, r, Top.k)
         /\ LET b == _get_api_base_path(Top.url, Top.code)
                next == AttemptNext(r, Top.k)
                ov == First(r.page.links, LAMBDA l : IsOverviewLink(l, b, Top.code),
                            Link("", NoUrl)).href
            IN IF next = "retry"
               THEN stack' = SetTop([Top EXCEPT !.k = @ + 1]) /\ UNCHANGED ret
               ELSE IF next = "fail"
               THEN SubReturn(<<>>)
               ELSE IF IsBlocked(r.page)
               THEN /\ stack' = SetTop([Top EXCEPT !.pc = "probe", !.base = b, !.k = 1])
                    /\ UNCHANGED ret
               ELSE IF ov # NoUrl
               THEN /\ stack' = SetTop([Top EXCEPT !.pc = "overview", !.aux = ov, !.k = 0])
                    /\ UNCHANGED ret
               ELSE SubReturn(ClassifySubcategories(r.page, b, Top.code, visited_urls'))
    /\ UNCHANGED <<loopVars, api_doc_url, categories, attempted, raised>>

\* one pass of the retry loop on the directory page and, after status 200,
\* the handling of the page
SubAttempt ==
    /\ At("_fetch_subcategories_from_api_dir", "fetch")
    /\ Top.k > 0 \/ Top.url \notin visited_urls
    /\ visited_urls' = visited_urls \cup {Top.url}
    /\ \E r \in Answers(Top.url, Top.code) :
         /\ Request(Top.url, Top.k > 0, r)
         /\ gf' = GfAfter(Top.url, r, Top.k)
         /\ LET b == _get_api_base_path(Top.url, Top.code)
                next == AttemptNext(r, Top.k)
                ov == First(r.page.links, LAMBDA l : IsOverviewLink(l, b, Top.code),
                            Link("", NoUrl)).href
            IN IF next = "retry"
               THEN stack' = SetTop([Top EXCEPT !.k = @ + 1]) /\ UNCHANGED ret
               ELSE IF next = "fail"
               THEN SubReturn(<<>>)
               ELSE IF IsBlocked(r.page)
               THEN /\ stack' = SetTop([Top EXCEPT !.pc = "probe", !.base = b, !.k = 1])
                    /\ UNCHANGED ret
               ELSE IF ov # NoUrl
               THEN /\ stack' = SetTop([Top EXCEPT !.pc = "overview", !.aux = ov, !.k = 0])
                    /\ UNCHANGED ret
               ELSE SubReturn(ClassifySubcategories(r.page, b, Top.code, visited_urls'))
    /\ UNCHANGED <<loopVars, api_doc_url, categories, attempted, raised>>

\* _fetch_subcategories_from_overview: if overview_url in self.visited_urls
OverviewGuardHit ==
    /\ At("_fetch_subcategories_from_api_dir", "overview")
    /\ Top.k = 0
    /\ Top.aux \in visited_urls
    /\ SubReturn(<<>>)
    /\ UNCHANGED <<loopVars, visited_urls, api_doc_url, categories, attempted, requested, raised>>
    /\ gf' = NoGf
    /\ lastReq' = NoReq

\* one pass of the retry loop on the overview page and, after status 200,
\* the classification of its links
OverviewAttempt ==
    /\ At("_fetch_subcategories_from_api_dir", "overview")
    /\ Top.k > 0 \/ Top.aux \notin visited_urls
    /\ visited_urls' = visited_urls \cup {Top.aux}
    /\ \E r \in Answers(Top.aux, Top.code) :
         /\ Request(Top.aux, Top.k > 0, r)
         /\ gf' = GfAfter(Top.aux, r, Top.k)
         /\ LET b == _get_api_base_path(Top.aux, Top.code)
                next == AttemptNext(r, Top.k)
            IN IF next = "retry"
               THEN stack' = SetTop([Top EXCEPT !.k = @ + 1]) /\ UNCHANGED ret
               ELSE IF next = "fail"
               THEN SubReturn(<<>>)
               ELSE SubReturn(ClassifyOverview(r.page, b, Top.code, visited_urls'))
    /\ UNCHANGED <<loopVars, api_doc_url, categories, attempted, raised>>

\* ------------------------------------------------------------------ _try_build_subcategories_directly
\* TestNumbers whose first loop starts at 0000: range(0, lo)
TestNumbersFromZero(lo, hi) == [j \in 1..lo |-> j - 1] \o [j \in 1..hi |-> j * 100]

\* f"{i:04d}" for i in range(1, lo + 1), then f"{i:02d}00" for i in range(1, hi + 1)
TestNumbers(lo, hi) == [j \in 1..lo |-> j] \o [j \in 1..hi |-> j * 100]

test_numbers == TestNumbers(MaxLowId, MaxHundredId)

\* the numbering family of the probe URLs
ProbePattern(url, c) ==
    IF url[2] = c /\ url[3] = "02" /\ url[4] = 0 THEN "02"
    ELSE IF url[2] = c /\ url[3] = "api" /\ url[4] = 0 THEN "api"
    ELSE "02"

test_url(f) == U(f.base, f.code, ProbePattern(f.url, f.code), test_numbers[f.k])

\* the next candidate, or the return of the nodes found
ProbeNext(f, acc) ==
    IF f.k < Len(test_numbers)
    THEN stack' = SetTop([f EXCEPT !.pc = "probe", !.k = @ + 1, !.acc = acc]) /\ UNCHANGED ret
    ELSE SubReturn(acc)

\* response = self.session.head(test_url, ...)
ProbeHead ==
    /\ At("_fetch_subcategories_from_api_dir", "probe")
    /\ \E r \in Answers(test_url(Top), Top.code) :
         /\ Request(test_url(Top), FALSE, r)
         /\ IF r.status = "bad"
            THEN stack' = SetTop([Top EXCEPT !.pc = "probe_get"]) /\ UNCHANGED ret
            ELSE ProbeNext(Top, Top.acc)
    /\ UNCHANGED <<loopVars, visited_urls, api_doc_url, categories, attempted, raised>>
    /\ gf' = NoGf

\* ProbeGet that goes on to the full GET whatever the partial GET answered
ProbeGetAnyStatus ==
    /\ At("_fetch_subcategories_from_api_dir", "probe_get")
    /\ \E r \in Answers(test_url(Top), Top.code) :
         /\ Request(test_url(Top), FALSE, r)
         /\ stack' = SetTop([Top EXCEPT !.pc = "probe_full"]) /\ UNCHANGED ret
    /\ UNCHANGED <<loopVars, visited_urls, api_doc_url, categories, attempted, raised>>
    /\ gf' = NoGf

\* response = self.session.get(test_url, ..., stream=True)
ProbeGet ==
    /\ At("_fetch_subcategories_from_api_dir", "probe_get")
    /\ \E r \in Answers(test_url(Top), Top.code) :
         /\ Request(test_url(Top), FALSE, r)
         /\ IF r.status = "ok"
            THEN stack' = SetTop([Top EXCEPT !.pc = "probe_full"]) /\ UNCHANGED ret
            ELSE ProbeNext(Top, Top.acc)
    /\ UNCHANGED <<loopVars, visited_urls, api_doc_url, categories, attempted, raised>>
    /\ gf' = NoGf

TitleIsError(title) == title \in {"404", "error", "bangzhuzhongxin"}

\* the node that the full GET of a candidate yields, if any
ProbeNodes(r, url) ==
    IF r.status = "err" THEN <<Node("APIfenlei", url)>>
    ELSE IF r.status = "bad" THEN <<>>
    ELSE IF r.page.captcha \/ r.page.redirect \/ r.page.len < 1000 \/ r.page.helpc
    THEN <<Node("APIfenlei", url)>>
    ELSE IF ~TitleIsError(r.page.title)
    THEN <<Node(IF r.page.title = "" THEN "APIfenlei" ELSE r.page.title, url)>>
    ELSE <<>>

\* full_response = self.session.get(test_url, ...)
ProbeFull ==
    /\ At("_fetch_subcategories_from_api_dir", "probe_full")
    /\ \E r \in Answers(test_url(Top), Top.code) :
         /\ Request(test_url(Top), FALSE, r)
         /\ ProbeNext(Top, Top.acc \o ProbeNodes(r, test_url(Top)))
    /\ UNCHANGED <<loopVars, visited_urls, api_doc_url, categories, attempted, raised>>
    /\ gf' = NoGf

\* ------------------------------------------------------------------ _parse_api_categories_from_menu
\* urljoin(doc_url, ...) for the three side-menu file names
menu_urls(doc) ==
    <<U(doc[1], doc[2], "v3_support_leftmenu_fragment", 0),
      U("root", "", "v3_support_leftmenu_fragment", 0),
      U(doc[1], doc[2], "leftmenu", 0)>>

IsMenuRefLink(l) == l.text # "" /\ l.href # NoUrl /\ "cankao" \in Subs(l.text)

\* MenuNextUrl that tries the same menu URL again
MenuNextUrlAgain(f) ==
    /\ stack' = SetTop([f EXCEPT !.pc = "menu", !.urls = <<>>])
    /\ UNCHANGED <<categories, attempted, ret>>

\* continue with the next menu URL, or return the empty list
MenuNextUrl(f) ==
    IF f.k < Len(menu_urls(f.url))
    THEN /\ stack' = SetTop([f EXCEPT !.pc = "menu", !.k = @ + 1, !.urls = <<>>])
         /\ UNCHANGED <<categories, attempted, ret>>
    ELSE FacAfter([f EXCEPT !.urls = <<>>], 4, <<>>, Finished(attempted, <<>>))

\* continue with the next "cankao" link of the menu, or break
MenuNextLink(f) ==
    IF Tail(f.urls) # <<>>
    THEN /\ stack' = SetTop([f EXCEPT !.pc = "menu_ref", !.urls = Tail(@)])
         /\ UNCHANGED <<categories, attempted>>
         /\ ret' = NoRet
    ELSE FacAfter([f EXCEPT !.urls = <<>>], 4, <<>>, Finished(attempted, <<>>))

\* the request of one side-menu URL
MenuGet ==
    /\ At("fetch_api_categories", "menu")
    /\ LET url == menu_urls(Top.url)[Top.k] IN
       \E r \in Answers(url, Top.code) :
         /\ Request(url, FALSE, r)
         /\ IF r.status # "ok"
            THEN MenuNextUrl(Top)
            ELSE LET refs == Hrefs(SelectSeq(r.page.links, IsMenuRefLink))
                 IN IF refs = <<>>
                    THEN FacAfter(Top, 4, <<>>, Finished(attempted, <<>>))
                    ELSE /\ stack' = SetTop([Top EXCEPT !.pc = "menu_ref", !.urls = refs])
                         /\ UNCHANGED <<categories, attempted, ret>>
    /\ UNCHANGED <<loopVars, visited_urls, api_doc_url, raised>>
    /\ gf' = NoGf

\* the request of the page behind a "cankao" link of the menu
MenuRef ==
    /\ At("fetch_api_categories", "menu_ref")
    /\ LET ref_url == Head(Top.urls) IN
       \E r \in Answers(ref_url, Top.code) :
         /\ Request(ref_url, FALSE, r)
         /\ IF r.status = "err" THEN MenuNextUrl(Top)
            ELSE IF r.status = "bad" THEN MenuNextLink(Top)
            ELSE /\ stack' = Call([Top EXCEPT !.pc = "menu_dir"],
                                  Frame("_find_api_directory_url", "get", ref_url, Top.code))
                 /\ UNCHANGED <<categories, attempted, ret>>
    /\ UNCHANGED <<loopVars, visited_urls, api_doc_url, raised>>
    /\ gf' = NoGf

MenuAfterDir ==
    /\ At("fetch_api_categories", "menu_dir")
    /\ IF ret.url # NoUrl
       THEN /\ stack' = Call([Top EXCEPT !.pc = "menu_sub"],
                             Frame("_fetch_subcategories_from_api_dir", "fetch",
                                   ret.url, Top.code))
            /\ ret' = NoRet
            /\ UNCHANGED <<categories, attempted>>
       ELSE MenuNextLink(Top)
    /\ UNCHANGED <<loopVars, visited_urls, api_doc_url, requested, raised>>
    /\ gf' = NoGf
    /\ lastReq' = NoReq

MenuAfterSub ==
    /\ At("fetch_api_categories", "menu_sub")
    /\ FacAfter([Top EXCEPT !.urls = <<>>], 4, ret.list, Finished(attempted, ret.list))
    /\ UNCHANGED <<loopVars, visited_urls, api_doc_url, requested, raised>>
    /\ gf' = NoGf
    /\ lastReq' = NoReq

\* ------------------------------------------------------------------ specification
Next ==
    \/ LoopSkip
    \/ LoopCall
    \/ LoopRecord
    \/ FindApiDocUrl
    \/ BuildPossible
    \/ BuildTest
    \/ PkDoc
    \/ PkProg
    \/ PkOverview
    \/ PkCandidate
    \/ AfterParse
    \/ ParseEnter
    \/ ParseAfterStd
    \/ FindApiReferenceCategory
    \/ ParseAfterRefDir
    \/ ParseAfterRefSub
    \/ ParseAfterDirectDir
    \/ ParseAfterDirectSub
    \/ FindDirGet
    \/ FindDirVerify
    \/ BuildApiDirectoryUrl
    \/ SubGuardHit
    \/ SubAttempt
    \/ OverviewGuardHit
    \/ OverviewAttempt
    \/ ProbeHead
    \/ ProbeGet
    \/ ProbeFull
    \/ MenuGet
    \/ MenuRef
    \/ MenuAfterDir
    \/ MenuAfterSub

Spec == Init /\ [][Next]_vars

\* ------------------------------------------------------------------ markdown_generator.py
\* The MarkdownGenerator of step 3 is a second object with its own session
\* and its own visited_urls; under GenSpec the variables stack,
\* visited_urls, ret, gf, requested and lastReq hold its state and lines is
\* the Markdown it writes.
MaxCategories == 2

\* category page: two API pages (one listed twice), the page of another
\* category, the directory, and a file whose number ends with 00
pgCat(c) ==
    Page(2000, {}, "API",
         <<Link("chuangjian", U("api-", c, "02", 11)),
           Link("jingxiang", U("api-", c, "02", 2)),
           Link("API", U("api-", c, "02", 0)),
           Link("chuangjian", U("api-", c, "02", 11)),
           Link("fenlei", U("api-", c, "02", 100))>>, <<>>)

\* category page of a product whose API documents are below /api/{code}/
pgCatSlash(c) ==
    Page(2000, {}, "API",
         <<Link("chuangjian", U("api/", c, "02", 11)),
           Link("jingxiang", U("api/", c, "02", 2))>>, <<>>)

\* API page with a heading and a request line
pgApi ==
    [Page(2000, {}, "chuangjian", <<>>, <<>>)
       EXCEPT !.h1 = "chuangjian - CreateServers", !.uri = "POST /v1/servers"]

GenResponses(c) ==
    {RErr, RBad} \cup {ROk(pg) : pg \in {pgBlank, pgCat(c), pgCatSlash(c), pgApi}}

\* a site as in Sites, with the pages of step 3
GenSites == {{a, b} : a, b \in GenResponses("ecs")}

\* the categories of api_categories.json
CategoryPool ==
    {Node("shili", U("api-", "ecs", "02", 1)),
     Node("jingxiang", U("api-", "ecs", "02", 2)),
     Node("shili", U("api-", "ecs", "topic", 2)),
     Node("shili", U("api/", "ecs", "02", 1)),
     Node("", U("api-", "ecs", "02", 3)),
     [Node("fuwu", U("api-", "ecs", "02", 4))
        EXCEPT !.subcategories = <<Node("shili", U("api-", "ecs", "02", 1))>>]}

GenInputs == UNION {[1..n -> CategoryPool] : n \in 0..MaxCategories}

ProductData(code, cats) == [product_code |-> code, product_name |-> "", categories |-> cats]

\* one line of the Markdown output
Heading(level, name) == [kind |-> "heading", level |-> level, name |-> name, uri |-> "", url |-> NoUrl]

ApiLine(api) == [kind |-> "api", level |-> 0, name |-> api.name, uri |-> api.uri, url |-> api.url]

Placeholder == [kind |-> "placeholder", level |-> 0, name |-> "", uri |-> "", url |-> NoUrl]

\* product_code.upper() for an alphabetic product code
_get_product_short_name(code) == IF code = "ecs" THEN "ECS" ELSE code

gen_exclude_keywords ==
    {"shangyipian", "xiayipian", "biao", "chakanPDF", "PDF", "#", "javascript:",
     "shangyiye", "xiayiye", "APIcankao", "gailan"}

\* api_patterns, from the file name of the category URL; "*" is None
api_patterns(url, c) ==
    IF url[3] = "topic" THEN <<"*">>
    ELSE IF url[2] = c /\ url[3] = "02" THEN <<"02">>
    ELSE IF url[2] = c /\ url[3] = "api" THEN <<"api">>
    ELSE <<"02", "api", "*">>

\* text.strip().upper() != 'API'
IsApiText(text) == text \in {"API", "api"}

\* the file is a directory or category page: {code}_02_0000, {code}_api_0000,
\* {code}_03_0000, topic_300000000
IsExcludedFile(href) ==
    \/ href[3] \in {"02", "api", "03"} /\ href[4] = 0
    \/ href[3] = "topic" /\ href[4] = 300000000

\* whether one pattern of api_patterns accepts the link
PatternAccepts(p, l) ==
    IF p = "*"
    THEN /\ ~(l.href[3] = "api" /\ l.href[4] \in {0, 1000})
         /\ ~(l.href[3] \in {"02", "api", "03"} /\ l.href[4] = 0)
         /\ ~(l.href[3] = "topic" /\ l.href[4] \div 1000 = 300000)
         /\ ~IsApiText(l.text)
    ELSE /\ l.href[3] = p
         /\ l.href[4] % 100 # 0
         /\ ~IsApiText(l.text)

\* a link of the category page that is taken as an API page
IsApiLink(l, url, c, visited) ==
    /\ l.text # ""
    /\ l.href # NoUrl
    /\ ~AnyIn(gen_exclude_keywords, l.text)
    /\ UnderBase(l.href, "api-", c)
    /\ l.href \notin visited
    /\ ~IsExcludedFile(l.href)
    /\ \E k \in 1..Len(api_patterns(url, c)) : PatternAccepts(api_patterns(url, c)[k], l)

\* unique_api_urls: the API links of the page, the first of each URL
unique_api_urls(page, url, c, visited) ==
    LET ok(l) == IsApiLink(l, url, c, visited)
    IN AddAllUnique(<<>>, LinkNodes(SelectSeq(page.links, ok)))

\* the heading without its English part
CleanApiName(h1) ==
    IF h1 \in {"chuangjian - CreateServers", "chuangjian (CreateServers)"}
    THEN "chuangjian" ELSE h1

ApiInfo(name, uri, url) == [name |-> name, uri |-> uri, url |-> url]

\* _extract_api_info on the outcome of its guarded fetch
_extract_api_info(r, link) ==
    IF r.status # "ok" THEN ApiInfo(link.name, "", link.url)
    ELSE ApiInfo(IF r.page.h1 # "" THEN CleanApiName(r.page.h1) ELSE link.name,
                 r.page.uri, link.url)

ApiLines(apis) ==
    LET ok(a) == a.name # "" /\ a.url # NoUrl
        sel == SelectSeq(apis, ok)
    IN [j \in 1..Len(sel) |-> ApiLine(sel[j])]

engineVars == <<products, site, i, results, api_doc_url, categories, attempted, raised, engines>>

GenInit ==
    /\ site \in GenSites
    /\ \E cats \in GenInputs :
         stack = <<[Frame("generate_markdown", "loop", NoUrl, "")
                      EXCEPT !.urls = <<ProductData("ecs", cats)>>]>>
    /\ lines = <<>>
    /\ products = <<>>
    /\ i = 1
    /\ results = <<>>
    /\ visited_urls = {}
    /\ ret = NoRet
    /\ api_doc_url = NoUrl
    /\ categories = <<>>
    /\ attempted = <<>>
    /\ gf = NoGf
    /\ requested = {}
    /\ lastReq = NoReq
    /\ raised = FALSE
    /\ engines = <<>>

\* generate_markdown: the next product of api_categories.json; the title
\* of _generate_product_markdown and, without categories, its placeholder
GenerateMarkdown ==
    /\ At("generate_markdown", "loop")
    /\ Top.urls # <<>>
    /\ LET p == Head(Top.urls)
           f == [Top EXCEPT !.urls = Tail(@)]
       IN IF p.product_code = ""
          THEN stack' = SetTop(f) /\ UNCHANGED lines
          ELSE IF p.categories = <<>>
          THEN /\ stack' = SetTop(f)
               /\ lines' = lines \o <<Heading(1, _get_product_short_name(p.product_code)),
                                      Placeholder>>
          ELSE /\ stack' = Call(f, [Frame("_generate_product_markdown", "loop", NoUrl,
                                          p.product_code)
                                      EXCEPT !.urls = p.categories])
               /\ lines' = Append(lines, Heading(1, _get_product_short_name(p.product_code)))
    /\ UNCHANGED <<engineVars, visited_urls, ret, requested>>
    /\ gf' = NoGf
    /\ lastReq' = NoReq

\* _generate_product_markdown: for category in categories
GenerateProductMarkdown ==
    /\ At("_generate_product_markdown", "loop")
    /\ IF Top.urls = <<>>
       THEN stack' = Pop
       ELSE stack' = Call([Top EXCEPT !.urls = Tail(@)],
                          [Frame("_add_category_content", "enter", Head(Top.urls).url, Top.code)
                             EXCEPT !.node = Head(Top.urls), !.level = 2])
    /\ UNCHANGED <<engineVars, lines, visited_urls, ret, requested>>
    /\ gf' = NoGf
    /\ lastReq' = NoReq

\* _add_category_content up to the call of _fetch_apis_from_category
AddCategoryContent ==
    /\ At("_add_category_content", "enter")
    /\ IF Top.node.name = ""
       THEN stack' = Pop
       ELSE stack' = Call([Top EXCEPT !.pc = "after_fetch"],
                          Frame("_fetch_apis_from_category", "fetch", Top.url, Top.code))
    /\ UNCHANGED <<engineVars, lines, visited_urls, ret, requested>>
    /\ gf' = NoGf
    /\ lastReq' = NoReq

\* if category_url in self.visited_urls: return apis
FetchApisGuardHit ==
    /\ At("_fetch_apis_from_category", "fetch")
    /\ Top.k = 0
    /\ Top.url \in visited_urls
    /\ SubReturn(<<>>)
    /\ UNCHANGED <<engineVars, lines, visited_urls, requested>>
    /\ gf' = NoGf
    /\ lastReq' = NoReq

\* one pass of the retry loop on the category page and, after status 200,
\* the classification of its links
FetchApisAttempt ==
    /\ At("_fetch_apis_from_category", "fetch")
    /\ Top.k > 0 \/ Top.url \notin visited_urls
    /\ visited_urls' = visited_urls \cup {Top.url}
    /\ \E r \in Answers(Top.url, Top.code) :
         /\ Request(Top.url, Top.k > 0, r)
         /\ gf' = GfAfter(Top.url, r, Top.k)
         /\ LET next == AttemptNext(r, Top.k)
                found == unique_api_urls(r.page, Top.url, Top.code, visited_urls')
            IN IF next = "retry"
               THEN stack' = SetTop([Top EXCEPT !.k = @ + 1]) /\ UNCHANGED ret
               ELSE IF next = "fail" \/ found = <<>>
               THEN SubReturn(<<>>)
               ELSE /\ stack' = SetTop([Top EXCEPT !.pc = "apis", !.k = 0, !.urls = found])
                    /\ UNCHANGED ret
    /\ UNCHANGED <<engineVars, lines>>

\* the next API link, or the return of the list of APIs
ApiNext(f, apis) ==
    IF Tail(f.urls) = <<>>
    THEN SubReturn(apis)
    ELSE /\ stack' = SetTop([f EXCEPT !.k = 0, !.urls = Tail(@), !.acc = apis])
         /\ UNCHANGED ret

\* _extract_api_info on the next API link: the guard on visited_urls, then
\* one pass of the retry loop on the API page; the entry of the API after
\* the last pass
ExtractApiInfo ==
    /\ At("_fetch_apis_from_category", "apis")
    /\ LET link == Head(Top.urls) IN
       IF Top.k = 0 /\ link.url \in visited_urls
       THEN /\ ApiNext(Top, Top.acc)
            /\ UNCHANGED <<visited_urls, requested>>
            /\ gf' = NoGf
            /\ lastReq' = NoReq
       ELSE /\ visited_urls' = visited_urls \cup {link.url}
            /\ \E r \in Answers(link.url, Top.code) :
                 /\ Request(link.url, Top.k > 0, r)
                 /\ gf' = GfAfter(link.url, r, Top.k)
                 /\ IF AttemptNext(r, Top.k) = "retry"
                    THEN stack' = SetTop([Top EXCEPT !.k = @ + 1]) /\ UNCHANGED ret
                    ELSE ApiNext(Top, Append(Top.acc, _extract_api_info(r, link)))
    /\ UNCHANGED <<engineVars, lines>>

\* AddCategoryAfterFetch without the test "if not apis and not subcategories"
AddCategoryAfterFetchKeep ==
    /\ At("_add_category_content", "after_fetch")
    /\ LET apis == ret.list
           subcategories == Top.node.subcategories
       IN IF subcategories = <<>>
          THEN /\ stack' = Pop
               /\ lines' = Append(lines, Heading(Top.level, Top.node.name)) \o ApiLines(apis)
          ELSE /\ stack' = SetTop([Top EXCEPT !.pc = "subs", !.urls = subcategories,
                                              !.acc = apis])
               /\ lines' = Append(lines, Heading(Top.level, Top.node.name))
    /\ ret' = NoRet
    /\ UNCHANGED <<engineVars, visited_urls, requested>>
    /\ gf' = NoGf
    /\ lastReq' = NoReq

\* _add_category_content after _fetch_apis_from_category: a category
\* without APIs and without subcategories is skipped; otherwise its heading,
\* and without subcategories its APIs
AddCategoryAfterFetch ==
    /\ At("_add_category_content", "after_fetch")
    /\ LET apis == ret.list
           subcategories == Top.node.subcategories
       IN IF apis = <<>> /\ subcategories = <<>>
          THEN stack' = Pop /\ UNCHANGED lines
          ELSE IF subcategories = <<>>
          THEN /\ stack' = Pop
               /\ lines' = Append(lines, Heading(Top.level, Top.node.name)) \o ApiLines(apis)
          ELSE /\ stack' = SetTop([Top EXCEPT !.pc = "subs", !.urls = subcategories,
                                              !.acc = apis])
               /\ lines' = Append(lines, Heading(Top.level, Top.node.name))
    /\ ret' = NoRet
    /\ UNCHANGED <<engineVars, visited_urls, requested>>
    /\ gf' = NoGf
    /\ lastReq' = NoReq

\* for subcategory in subcategories, then the APIs of the category
AddCategorySubs ==
    /\ At("_add_category_content", "subs")
    /\ IF Top.urls = <<>>
       THEN /\ stack' = Pop
            /\ lines' = lines \o ApiLines(Top.acc)
       ELSE /\ stack' = Call([Top EXCEPT !.urls = Tail(@)],
                             [Frame("_add_category_content", "enter", Head(Top.urls).url,
                                    Top.code)
                                EXCEPT !.node = Head(Top.urls), !.level = Top.level + 1])
            /\ UNCHANGED lines
    /\ UNCHANGED <<engineVars, visited_urls, ret, requested>>
    /\ gf' = NoGf
    /\ lastReq' = NoReq

GenNext ==
    \/ GenerateMarkdown
    \/ GenerateProductMarkdown
    \/ AddCategoryContent
    \/ FetchApisGuardHit
    \/ FetchApisAttempt
    \/ ExtractApiInfo
    \/ AddCategoryAfterFetch
    \/ AddCategorySubs

GenSpec == GenInit /\ [][GenNext]_vars

\* ------------------------------------------------------------------ the whole program
\* step 2 (Spec) or step 3 (GenSpec) of the command line
ProgramInit == Init \/ GenInit

ProgramNext == Next \/ GenNext

ProgramSpec == ProgramInit /\ [][ProgramNext]_vars

\* ------------------------------------------------------------------ properties
\* the attempts of a guarded fetch, without the sleeps between them
Attempts(trace) == SelectSeq(trace, LAMBDA e : e # "sleep")

\* a guarded fetch has failed on all its attempts
GfFailed ==
    /\ Len(Attempts(gf.trace)) = max_retries
    /\ \A j \in 1..max_retries : Attempts(gf.trace)[j] # "ok"

\* fetch_api_categories has returned to the loop without an exception
Returned == At("main", "after_call") /\ ~raised

\* the order in which fetch_api_categories starts its strategies
CascadeOrder ==
    <<"progressive_knowledge", "standard", "reference", "direct",
      "standard", "reference", "direct", "menu">>

\* C1: within one call of fetch_api_categories no URL is requested more
\* than once (the retries of one guarded fetch count as one request).
C1_NoUrlRequestedTwice == ~lastReq.again

\* C2: a URL that is in visited_urls is never requested again, by no
\* operation of the engine.
C2_VisitedNeverRequested == ~lastReq.wasVisited

\* C3: visited_urls is empty at the start of every call of
\* fetch_api_categories.
C3_VisitedEmptyAtRunStart == At("fetch_api_categories", "find") => visited_urls = {}

\* C4: a strategy is started only when every strategy before it returned
\* the empty list, and the categories fetch_api_categories returns are the
\* list of the last strategy it started, the first non-empty one if any.
C4_FirstNonEmptyWins ==
    /\ \A j \in 1..(Len(attempted) - 1) : attempted[j].done /\ attempted[j].res = <<>>
    /\ Returned /\ ~ret.none =>
         /\ attempted # <<>>
         /\ attempted[Len(attempted)].done
         /\ ret.list = attempted[Len(attempted)].res

C4_Witness ==
    /\ Returned
    /\ Len(attempted) >= 2
    /\ ret.list # <<>>

\* C5 as stated: whenever subcategory discovery on the standard directory
\* URL is started, the reference lookup has been attempted before it.
C5_ReferenceBeforeStandard ==
    \A j \in 1..Len(attempted) :
      attempted[j].name = "standard" =>
        \E k \in 1..(j - 1) : attempted[k].name = "reference"

\* C5 amended: the strategies are started in the order progressive_knowledge,
\* then standard directory URL, reference lookup and direct lookup on the API
\* documentation URL, the same three on the product home page, and the side
\* menu last.
C5_StandardBeforeReference ==
    /\ Len(attempted) <= Len(CascadeOrder)
    /\ \A j \in 1..Len(attempted) : attempted[j].name = CascadeOrder[j]

C5_Witness ==
    /\ Len(attempted) = Len(CascadeOrder)
    /\ attempted[Len(attempted)].name = "menu"

\* C6: for a doc URL that is a string fetch_api_categories raises no
\* exception and returns a record, never None, whatever the site answers;
\* when every strategy returned the empty list the categories of the record
\* are the empty list.
C6_AlwaysARecord ==
    (Len(stack) > 1 \/ At("main", "after_call")) /\ IsStr(products[i].doc_url) =>
      /\ ~raised
      /\ ~ret.none
      /\ At("main", "after_call") =>
           /\ ret.url # NoUrl
           /\ (\A j \in 1..Len(attempted) : attempted[j].res = <<>>) => ret.list = <<>>

C6_Witness ==
    /\ Returned
    /\ IsStr(products[i].doc_url)
    /\ Len(attempted) = Len(CascadeOrder)
    /\ ret.list = <<>>
    /\ ret.url = fallback_url(products[i].product_code)

\* C7: a guarded fetch makes at most max_retries attempts and none after
\* an attempt that answered with status 200.
C7_AtMostThreeAttempts ==
    /\ Len(Attempts(gf.trace)) <= max_retries
    /\ \A j \in 1..(Len(Attempts(gf.trace)) - 1) : Attempts(gf.trace)[j] # "ok"

C7_Witness ==
    /\ Len(Attempts(gf.trace)) = max_retries
    /\ Attempts(gf.trace)[max_retries] = "ok"

\* C8: every attempt of a guarded fetch but the first follows a sleep,
\* after a transport error and after a non-200 status alike.
C8_DelayBetweenAttempts ==
    \A j \in 2..Len(gf.trace) :
      gf.trace[j] # "sleep" => gf.trace[j - 1] = "sleep"

\* C9: when a guarded fetch has failed on all its attempts, no exception
\* leaves fetch_api_categories, the function that fetched returns the empty
\* list, the strategy that called it ends with the empty list, and the
\* cascade goes on: a run that returns no categories has started every
\* strategy.
C9_FailedFetchYieldsEmpty ==
    /\ [](GfFailed => ~raised /\ ret = RetList(<<>>))
    /\ [][GfFailed => /\ attempted'[Len(attempted)].done
                      /\ attempted'[Len(attempted)].res = <<>>]_vars
    /\ [](Returned /\ IsStr(products[i].doc_url) /\ ret.list = <<>>
            => Len(attempted) = Len(CascadeOrder))

C9_Witness == GfFailed /\ Top.pc = "after_std"

\* the products of the list that step 2 resolves
Resolvable(p) == p.product_code # "" /\ p.doc_url # NoUrl

\* C10: results holds one record for each product with code and doc URL
\* that the loop has passed, in the order of the list, and a record with an
\* error only for a product whose resolution raised.
C10_OneRecordPerProduct ==
    LET passed == SelectSeq(SubSeq(products, 1, i - 1), Resolvable)
    IN /\ Len(results) = Len(passed)
       /\ \A j \in 1..Len(results) :
            /\ results[j].product_code = passed[j].product_code
            /\ results[j].product_name = passed[j].name
            /\ results[j].error # "" => ~IsStr(passed[j].doc_url)

C10_Witness ==
    \E j \in 1..Len(results) : \E k \in (j + 1)..Len(results) :
      /\ results[j].error # ""
      /\ results[k].error = ""

\* ------------------------------------------------------------------ properties of discovery
\* the answer to the request that the step just taken made
Answer == lastReq.resp

NodeUrls(list) == [j \in 1..Len(list) |-> list[j].url]

\* the file is a directory page: {code}_02_0000, {code}_api_0000, {code}_03_0000
IsReservedId(url) == url[3] \in {"02", "api", "03"} /\ url[4] = 0

\* the directory page has no "API overview" link
NoOverviewLink(page, b, c) ==
    \A j \in 1..Len(page.links) : ~IsOverviewLink(page.links[j], b, c)

\* the links of the page are {code}_02_0001, {code}_02_0002, {code}_02_0000
IsExampleDir(page, b, c) ==
    Hrefs(page.links) = <<U(b, c, "02", 1), U(b, c, "02", 2), U(b, c, "02", 0)>>

\* the step fetched the directory page with status 200 and the page is
\* neither blocked nor a page with an overview link
DirPageListed ==
    /\ At("_fetch_subcategories_from_api_dir", "fetch")
    /\ Answer'.status = "ok"
    /\ ~IsBlocked(Answer'.page)
    /\ NoOverviewLink(Answer'.page, _get_api_base_path(Top.url, Top.code), Top.code)

\* C11: a directory page fetched with status 200 that is not blocked and has
\* no overview link yields the list of its subcategory links in document
\* order, without a node of a reserved _0000 id; the page with the links
\* _0001, _0002, _0000 yields exactly the nodes of _0001 and _0002.
C11_ReservedIdExcludedInOrder ==
    [][DirPageListed =>
         LET b == _get_api_base_path(Top.url, Top.code) IN
         /\ Len(stack') = Len(stack) - 1
         /\ \A j \in 1..Len(ret'.list) : ~IsReservedId(ret'.list[j].url)
         /\ IsExampleDir(Answer'.page, b, Top.code) =>
              NodeUrls(ret'.list) = <<U(b, Top.code, "02", 1), U(b, Top.code, "02", 2)>>]_vars

\* the blocked-page probe is running
Probing ==
    /\ Top.fn = "_fetch_subcategories_from_api_dir"
    /\ Top.pc \in {"probe", "probe_get", "probe_full"}

\* the nodes of the probe: the list of the running loop, or the list returned
ProbeResult == IF Probing THEN Top.acc ELSE ret.list

HasNode(list, url) == \E j \in 1..Len(list) : list[j].url = url

\* the step ends the handling of the candidate URL of the probe
CandidateDone == Probing /\ (~Probing' \/ Top'.k # Top.k)

\* C12: a candidate URL of the probe that answers one of the requests of the
\* probe (the HEAD, the partial GET or the full GET) with status 200 is a
\* node of the result, whatever the page is.
C12_SuccessStatusAccepted ==
    [][CandidateDone /\ Answer'.status = "ok" => HasNode(ProbeResult', test_url(Top))]_vars

\* C13: a directory page with zero links and a captcha marker sends the
\* resolution to the probe, and the probe adds a node only for the candidate
\* URL whose request just before answered with status 200; a candidate whose
\* requests failed or answered non-200 gets no node.
C13_ProbeNodesOnlyForSuccess ==
    /\ [][/\ At("_fetch_subcategories_from_api_dir", "fetch")
          /\ Answer'.status = "ok"
          /\ Answer'.page.links = <<>>
          /\ Answer'.page.captcha
          => Probing' /\ ProbeResult' = <<>>]_vars
    /\ [][Probing /\ ProbeResult' # Top.acc =>
            /\ Len(ProbeResult') = Len(Top.acc) + 1
            /\ SubSeq(ProbeResult', 1, Len(Top.acc)) = Top.acc
            /\ ProbeResult'[Len(ProbeResult')].url = test_url(Top)
            /\ lastReq.url = test_url(Top)
            /\ Answer.status = "ok"]_vars

C13_Witness ==
    /\ ROk(pgCaptcha) \in site
    /\ RBad \in site
    /\ At("_parse_api_categories", "after_std")
    /\ Len(ret.list) = 1
    /\ ret.list[1].name = "APIfenlei"

\* the links of the page that qualify as subcategories, whatever was visited
QualifyingLinks(page, b, c) == ClassifySubcategories(page, b, c, {})

\* C14: when the directory page fetched with status 200 has at least one
\* qualifying subcategory link, the function returns the nodes of the links
\* of the page and the probe is not started.
C14_ProbeOnlyWithoutLinks ==
    [][/\ At("_fetch_subcategories_from_api_dir", "fetch")
       /\ Answer'.status = "ok"
       /\ QualifyingLinks(Answer'.page, _get_api_base_path(Top.url, Top.code), Top.code) # <<>>
       => /\ ~Probing'
          /\ Len(stack') = Len(stack) - 1 =>
               \A j \in 1..Len(ret'.list) :
                 \E k \in 1..Len(Answer'.page.links) :
                   Answer'.page.links[k].href = ret'.list[j].url]_vars

\* ------------------------------------------------------------------ deduplication
\* The loop "seen_urls = set() ... if url not in seen_urls" on lists of at
\* most MaxNodes entries, applied once and then to its own result.
MaxNodes == 3

DedupPool ==
    {Node("shili", U("api-", "ecs", "02", 1)),
     Node("jingxiang", U("api-", "ecs", "02", 1)),
     Node("jingxiang", U("api-", "ecs", "02", 2)),
     Node("shili", U("api-", "ecs", "topic", 2))}

DedupInputs == UNION {[1..n -> DedupPool] : n \in 0..MaxNodes}

\* ProductFetcher._deduplicate_products: the same loop on product['url']
_deduplicate_products(list) == AddAllUnique(<<>>, list)

dedupVars ==
    <<products, site, lines, i, results, visited_urls, api_doc_url, categories,
      attempted, gf, requested, lastReq, raised, engines>>

DedupInit ==
    /\ \E input \in DedupInputs :
         stack = <<[Frame("dedup", "enter", NoUrl, "") EXCEPT !.urls = input]>>
    /\ site = {}
    /\ products = <<>>
    /\ lines = <<>>
    /\ i = 1
    /\ results = <<>>
    /\ visited_urls = {}
    /\ ret = NoRet
    /\ api_doc_url = NoUrl
    /\ categories = <<>>
    /\ attempted = <<>>
    /\ gf = NoGf
    /\ requested = {}
    /\ lastReq = NoReq
    /\ raised = FALSE
    /\ engines = <<>>

\* the deduplication of the subcategories of a page
Deduplicate ==
    /\ At("dedup", "enter")
    /\ stack' = SetTop([Top EXCEPT !.pc = "done", !.acc = AddAllUnique(<<>>, Top.urls)])
    /\ UNCHANGED <<dedupVars, ret>>

\* the deduplication of the product list
DeduplicateProducts ==
    /\ At("dedup", "enter")
    /\ stack' = SetTop([Top EXCEPT !.pc = "done_products",
                                   !.acc = _deduplicate_products(Top.urls)])
    /\ UNCHANGED <<dedupVars, ret>>

\* the same deduplication on the deduplicated list
DeduplicateAgain ==
    /\ Top.fn = "dedup"
    /\ Top.pc \in {"done", "done_products"}
    /\ ret' = RetList(IF Top.pc = "done" THEN AddAllUnique(<<>>, Top.acc)
                      ELSE _deduplicate_products(Top.acc))
    /\ stack' = SetTop([Top EXCEPT !.pc = "again"])
    /\ UNCHANGED dedupVars

DedupNext ==
    \/ Deduplicate
    \/ DeduplicateProducts
    \/ DeduplicateAgain

DedupSpec == DedupInit /\ [][DedupNext]_vars

\* the position of the first entry of the list with the URL
FirstIndex(list, url) ==
    CHOOSE k \in 1..Len(list) :
      list[k].url = url /\ \A m \in 1..(k - 1) : list[m].url # url

\* C15: the deduplicated list holds, for each URL of the input, exactly the
\* first entry of the input with that URL, in the order of the input; two
\* entries with the same URL give one; deduplicating the result again
\* changes nothing.
C15_DedupKeepsFirstInOrder ==
    Top.fn = "dedup" /\ Top.pc # "enter" =>
      LET input == Top.urls
          out == Top.acc
      IN /\ \A k \in 1..Len(input) :
              Cardinality({j \in 1..Len(out) : out[j].url = input[k].url}) = 1
         /\ \A j \in 1..Len(out) :
              /\ \E k \in 1..Len(input) : input[k].url = out[j].url
              /\ out[j] = input[FirstIndex(input, out[j].url)]
         /\ \A j \in 1..Len(out) : \A k \in (j + 1)..Len(out) :
              FirstIndex(input, out[j].url) < FirstIndex(input, out[k].url)
         /\ Top.pc = "again" => ret.list = out

C15_Witness ==
    /\ At("dedup", "again")
    /\ Len(Top.urls) = 3
    /\ Top.urls[1].url = Top.urls[3].url
    /\ Top.urls[1] # Top.urls[3]
    /\ Top.acc = <<Top.urls[1], Top.urls[2]>>
    /\ ret.list = Top.acc

\* no two entries of the list have the same URL
DistinctUrls(list) ==
    \A j \in 1..Len(list) : \A k \in (j + 1)..Len(list) : list[j].url # list[k].url

\* the API links written to the Markdown of the product
ApiLinks == SelectSeq(lines, LAMBDA l : l.kind = "api")

\* C16: the category list of every strategy, the list fetch_api_categories
\* returns, the categories of every record of step 2 and the API links of the
\* Markdown of a product have pairwise different URLs.
C16_UrlsUniqueInTree ==
    /\ \A j \in 1..Len(attempted) : DistinctUrls(attempted[j].res)
    /\ DistinctUrls(ret.list)
    /\ \A j \in 1..Len(results) : DistinctUrls(results[j].categories)
    /\ DistinctUrls(ApiLinks)

C16_Witness ==
    /\ Returned
    /\ ROk(pgOv("api-", "ecs")) \in site
    /\ ret.list = <<Node("shili", U("api-", "ecs", "topic", 2))>>

HasHeading(name) ==
    \E j \in 1..Len(lines) : lines[j].kind = "heading" /\ lines[j].level >= 2 /\ lines[j].name = name

engine_exclude_keywords ==
    {"shangyipian", "xiayipian", "biao", "chakanPDF", "PDF", "#", "javascript:"}

IsEngineApiLink(l, c, num, visited) ==
    /\ l.text # ""
    /\ l.href # NoUrl
    /\ ~AnyIn(engine_exclude_keywords, l.text)
    /\ UnderBase(l.href, "api-", c)
    /\ l.href \notin visited
    /\ HasFile(l.href)
    /\ num \in {"02", "api", "03"}
    /\ l.href[3] = num

\* the page links to at least one API page of the category
LinksToApiPage(page, node, c) ==
    \E j \in 1..Len(page.links) : IsEngineApiLink(page.links[j], c, node.url[3], {})

\* C18: every node of the list fetch_api_categories returns whose page, as
\* the site answers it, links to at least one API page has a non-empty list
\* of apis.
C18_NodesPopulated ==
    Returned =>
      \A j \in 1..Len(ret.list) :
        (\E r \in site : r.status = "ok"
                         /\ LinksToApiPage(r.page, ret.list[j], products[i].product_code))
          => ret.list[j].apis # <<>>

\* the API links _fetch_apis_from_category goes on with after the step
FoundApis == IF At("_fetch_apis_from_category", "apis") THEN Top.urls ELSE <<>>

\* C19: for every category _fetch_apis_from_category requests the URL of
\* the category, and after status 200 it goes on with the API links of the
\* page as they are classified when only the category itself counts as
\* visited, whatever was fetched for the categories before it.
C19_DiscoveryPerSubcategory ==
    /\ [][At("_fetch_apis_from_category", "fetch") => lastReq'.url = Top.url]_vars
    /\ [][At("_fetch_apis_from_category", "fetch") /\ Answer'.status = "ok" =>
            FoundApis' = unique_api_urls(Answer'.page, Top.url, Top.code, {Top.url})]_vars

\* C20: what a page yields in the role of a directory, of an overview and
\* of a category page is what its links yield when nothing counts as
\* visited, so it is the same for every content of visited_urls; and the
\* step adds nothing to visited_urls but the URL it fetched.
C20_ClassificationPure ==
    /\ [][DirPageListed =>
            ret'.list = ClassifySubcategories(Answer'.page,
                          _get_api_base_path(Top.url, Top.code), Top.code, {})]_vars
    /\ [][At("_fetch_subcategories_from_api_dir", "overview") /\ Answer'.status = "ok" =>
            ret'.list = ClassifyOverview(Answer'.page,
                          _get_api_base_path(Top.aux, Top.code), Top.code, {})]_vars
    /\ [][At("_fetch_apis_from_category", "fetch") /\ Answer'.status = "ok" =>
            FoundApis' = unique_api_urls(Answer'.page, Top.url, Top.code, {})]_vars
    /\ [][Answer'.status = "ok" => visited_urls' \subseteq visited_urls \cup {lastReq'.url}]_vars

\* ------------------------------------------------------------------ engines side by side
\* Several APICategoryFetcher objects that resolve at the same time, each
\* with the session and the visited_urls its constructor made.  The site
\* answers a URL with the same response whoever asks; every step of ParSpec
\* is one step of one object.
MaxEngines == 2

MaxWork == 2

\* the directory URLs one object is asked to resolve, in this order
WorkPool == {U("api-", "ecs", "02", 0), U("api-", "ecs", "02", 1)}

WorkLists == UNION {[1..n -> WorkPool] : n \in 1..MaxWork}

ParUrls == WorkPool \cup {U("api-", "ecs", "topic", 1)}

ParResponses ==
    {RBad, ROk(pgCaptcha), ROk(pgDir("api-", "ecs")), ROk(pgDirOv("api-", "ecs")),
     ROk(pgOv("api-", "ecs"))}

\* a site that answers each URL of ParUrls with one response and every other
\* URL with a non-200 status
ParSites == [ParUrls -> ParResponses]

SiteAnswer(s, url) == IF url \in DOMAIN s THEN s[url] ELSE RBad

\* APICategoryFetcher(): the object before its first call
NewEngine(work, c) ==
    [input |-> work, work |-> Tail(work), pc |-> "fetch", url |-> Head(work), code |-> c,
     base |-> "", k |-> 0, aux |-> NoUrl, acc |-> <<>>, visited_urls |-> {}, out |-> <<>>]

\* visited_urls as an attribute of the class: one set for all objects
cls_visited_urls(engs, n) == UNION {engs[m].visited_urls : m \in DOMAIN engs}

\* self.visited_urls = set() in __init__: the set of the object itself
self_visited_urls(engs, n) == engs[n].visited_urls

\* return of _fetch_subcategories_from_api_dir; the caller goes on with the
\* next directory URL
EngineReturn(e, list) ==
    [e EXCEPT !.out = Append(@, list),
              !.pc = IF e.work = <<>> THEN "done" ELSE "fetch",
              !.url = IF e.work = <<>> THEN NoUrl ELSE Head(e.work),
              !.work = IF e.work = <<>> THEN <<>> ELSE Tail(e.work),
              !.base = "", !.k = 0, !.aux = NoUrl, !.acc = <<>>]

\* the URL the next step of the object requests, NoUrl when it requests none
EngineUrl(e, visited) ==
    CASE e.pc = "fetch" -> IF e.k = 0 /\ e.url \in visited THEN NoUrl ELSE e.url
      [] e.pc = "overview" -> IF e.k = 0 /\ e.aux \in visited THEN NoUrl ELSE e.aux
      [] e.pc \in {"probe", "probe_get", "probe_full"} -> test_url(e)
      [] OTHER -> NoUrl

EngineProbeNext(e, acc) ==
    IF e.k < Len(test_numbers)
    THEN [e EXCEPT !.pc = "probe", !.k = @ + 1, !.acc = acc]
    ELSE EngineReturn(e, acc)

\* one step of _fetch_subcategories_from_api_dir in the object e, which sees
\* the set visited and gets the answer r
EngineStep(e, visited, r) ==
    CASE e.pc = "fetch" ->
           IF e.k = 0 /\ e.url \in visited THEN EngineReturn(e, <<>>)
           ELSE LET b == _get_api_base_path(e.url, e.code)
                    v == visited \cup {e.url}
                    f == [e EXCEPT !.visited_urls = @ \cup {e.url}]
                    next == AttemptNext(r, e.k)
                    ov == First(r.page.links, LAMBDA l : IsOverviewLink(l, b, e.code),
                                Link("", NoUrl)).href
                IN IF next = "retry" THEN [f EXCEPT !.k = @ + 1]
                   ELSE IF next = "fail" THEN EngineReturn(f, <<>>)
                   ELSE IF IsBlocked(r.page)
                   THEN [f EXCEPT !.pc = "probe", !.base = b, !.k = 1]
                   ELSE IF ov # NoUrl
                   THEN [f EXCEPT !.pc = "overview", !.aux = ov, !.k = 0]
                   ELSE EngineReturn(f, ClassifySubcategories(r.page, b, e.code, v))
      [] e.pc = "overview" ->
           IF e.k = 0 /\ e.aux \in visited THEN EngineReturn(e, <<>>)
           ELSE LET b == _get_api_base_path(e.aux, e.code)
                    v == visited \cup {e.aux}
                    f == [e EXCEPT !.visited_urls = @ \cup {e.aux}]
                    next == AttemptNext(r, e.k)
                IN IF next = "retry" THEN [f EXCEPT !.k = @ + 1]
                   ELSE IF next = "fail" THEN EngineReturn(f, <<>>)
                   ELSE EngineReturn(f, ClassifyOverview(r.page, b, e.code, v))
      [] e.pc = "probe" ->
           IF r.status = "bad" THEN [e EXCEPT !.pc = "probe_get"]
           ELSE EngineProbeNext(e, e.acc)
      [] e.pc = "probe_get" ->
           IF r.status = "ok" THEN [e EXCEPT !.pc = "probe_full"]
           ELSE EngineProbeNext(e, e.acc)
      [] e.pc = "probe_full" ->
           EngineProbeNext(e, e.acc \o ProbeNodes(r, test_url(e)))
      [] OTHER -> e

\* the step of the object n among the objects engs against the site s
NextEngine(engs, n, s) ==
    LET visited == self_visited_urls(engs, n)
    IN EngineStep(engs[n], visited, SiteAnswer(s, EngineUrl(engs[n], visited)))

\* the lists the object returns when it runs from the state e with no other
\* object beside it
RECURSIVE SoloRun(_, _)
SoloRun(e, s) ==
    IF e.pc = "done" THEN e.out ELSE SoloRun(NextEngine(<<e>>, 1, s), s)

ParInit ==
    /\ engines \in [1..MaxEngines -> {NewEngine(w, "ecs") : w \in WorkLists}]
    /\ site \in ParSites
    /\ stack = <<Frame("main", "parallel", NoUrl, "")>>
    /\ products = <<>>
    /\ lines = <<>>
    /\ i = 1
    /\ results = <<>>
    /\ visited_urls = {}
    /\ ret = NoRet
    /\ api_doc_url = NoUrl
    /\ categories = <<>>
    /\ attempted = <<>>
    /\ gf = NoGf
    /\ requested = {}
    /\ lastReq = NoReq
    /\ raised = FALSE

parVars ==
    <<products, site, lines, i, results, visited_urls, stack, ret, api_doc_url,
      categories, attempted, gf, requested, lastReq, raised>>

\* the object n fetches the directory page, or returns on its visited guard
EngineFetch(n) ==
    /\ engines[n].pc = "fetch"
    /\ engines' = [engines EXCEPT ![n] = NextEngine(engines, n, site)]
    /\ UNCHANGED parVars

\* the object n fetches the overview page, or returns on its visited guard
EngineOverview(n) ==
    /\ engines[n].pc = "overview"
    /\ engines' = [engines EXCEPT ![n] = NextEngine(engines, n, site)]
    /\ UNCHANGED parVars

\* the object n makes the next request of its probe
EngineProbe(n) ==
    /\ engines[n].pc \in {"probe", "probe_get", "probe_full"}
    /\ engines' = [engines EXCEPT ![n] = NextEngine(engines, n, site)]
    /\ UNCHANGED parVars

ParNext ==
    \E n \in 1..MaxEngines :
      \/ EngineFetch(n)
      \/ EngineOverview(n)
      \/ EngineProbe(n)

ParSpec == ParInit /\ [][ParNext]_vars

\* C21: whatever the other objects have done so far, the lists an object
\* goes on to return are the lists it returns when it runs alone from its
\* first call, and a step of one object changes no other object.
C21_InstancesIndependent ==
    /\ [](\A n \in DOMAIN engines :
           SoloRun(engines[n], site) = SoloRun(NewEngine(engines[n].input, engines[n].code), site))
    /\ [][\A n \in DOMAIN engines : \A m \in DOMAIN engines :
            engines'[n] # engines[n] /\ m # n => engines'[m] = engines[m]]_vars

\* both objects were asked for the same directory, the first one after it
\* had fetched one of the subcategories, and have returned different lists
C21_Witness ==
    /\ engines # <<>>
    /\ engines[1].pc = "done"
    /\ engines[2].pc = "done"
    /\ engines[1].input = <<U("api-", "ecs", "02", 1), U("api-", "ecs", "02", 0)>>
    /\ engines[2].input = <<U("api-", "ecs", "02", 0)>>
    /\ Len(engines[1].out[2]) = 1
    /\ Len(engines[2].out[1]) = 2

\* C22: when the fetch of the directory page or of the overview page answers
\* with status 200 and the page is blocked (under 1000 characters, a captcha
\* marker or a redirect marker), the next thing the engine does is the probe
\* of the generated sibling URLs.
C22_BlockedPageProbes ==
    [][/\ Top.fn = "_fetch_subcategories_from_api_dir"
       /\ Top.pc \in {"fetch", "overview"}
       /\ Answer'.status = "ok"
       /\ IsBlocked(Answer'.page)
       => Probing']_vars

\* C23: when the directory page fetched with status 200 is not blocked and
\* has subcategory links of its own, the function returns the subcategories
\* classified from the directory page, also when the page has an API
\* overview link beside them.
C23_OverviewOnlyWithoutLinks ==
    [][/\ At("_fetch_subcategories_from_api_dir", "fetch")
       /\ Answer'.status = "ok"
       /\ ~IsBlocked(Answer'.page)
       /\ ClassifySubcategories(Answer'.page, _get_api_base_path(Top.url, Top.code),
                                Top.code, visited_urls') # <<>>
       => /\ Len(stack') = Len(stack) - 1
          /\ ret'.list = ClassifySubcategories(Answer'.page,
                           _get_api_base_path(Top.url, Top.code), Top.code, visited_urls')]_vars

\* ------------------------------------------------------------------ the reference lookup on one page
\* _find_api_reference_category on one fetched page with at most MaxLinks
\* links, for the product ecs with the base path /api-ecs/
MaxLinks == 3

RefLinkPool ==
    {Link("APIcankao", U("api-", "ecs", "ref", 1)),
     Link("cankaoAPI", U("api-", "ecs", "ref", 2)),
     Link("cankao", U("api-", "ecs", "ref", 3)),
     Link("Reference", U("api-", "ecs", "ref", 4)),
     Link("cankaoAPI", U("api-", "ecs", "ref", 5)),
     Link("APIcankao", U("api-", "ecs", "", 0)),
     Link("shili", U("api-", "ecs", "02", 1))}

RefInputs == UNION {[1..n -> RefLinkPool] : n \in 0..MaxLinks}

RefInit ==
    /\ \E links \in RefInputs :
         stack = <<[Frame("_find_api_reference_category", "page", NoUrl, "ecs")
                      EXCEPT !.base = "api-", !.urls = links]>>
    /\ site = {}
    /\ products = <<>>
    /\ lines = <<>>
    /\ i = 1
    /\ results = <<>>
    /\ visited_urls = {}
    /\ ret = NoRet
    /\ api_doc_url = NoUrl
    /\ categories = <<>>
    /\ attempted = <<>>
    /\ gf = NoGf
    /\ requested = {}
    /\ lastReq = NoReq
    /\ raised = FALSE
    /\ engines = <<>>

\* the two loops over all_links and the sort of the candidates
LookUpReference ==
    /\ At("_find_api_reference_category", "page")
    /\ ret' = RetUrl(RefCategory(Page(2000, {}, "API", Top.urls, <<>>), Top.base, Top.code))
    /\ stack' = SetTop([Top EXCEPT !.pc = "found"])
    /\ UNCHANGED dedupVars

RefNext == LookUpReference

RefSpec == RefInit /\ [][RefNext]_vars

DashForm(url) == IF url[1] = "api/" THEN U("api-", url[2], url[3], url[4]) ELSE url

\* C25: on the page of a category below /api/{code}/ every link below
\* /api/{code}/ that would be taken as an API page if the product used
\* /api-{code}/ is among the API links the generator goes on with.
C25_SlashBaseClassified ==
    [][/\ At("_fetch_apis_from_category", "fetch")
       /\ Answer'.status = "ok"
       /\ _get_api_base_path(Top.url, Top.code) = "api/"
       => \A j \in 1..Len(Answer'.page.links) :
            LET l == Answer'.page.links[j] IN
            /\ UnderBase(l.href, "api/", Top.code)
            /\ IsApiLink(Link(l.text, DashForm(l.href)), Top.url, Top.code,
                         {DashForm(u) : u \in visited_urls'})
            => HasNode(FoundApis', l.href)]_vars

\* C26: nothing is ever taken out of visited_urls; the step that fetches a
\* directory or overview URL, from its first attempt on and whatever the
\* answer, leaves the URL in visited_urls; and a call of
\* _fetch_subcategories_from_api_dir on a URL that is in visited_urls
\* returns the empty list without a request.
C26_VisitedBeforeFetch ==
    /\ [][visited_urls \subseteq visited_urls']_vars
    /\ [][At("_fetch_subcategories_from_api_dir", "fetch") => Top.url \in visited_urls']_vars
    /\ [][At("_fetch_subcategories_from_api_dir", "overview") => Top.aux \in visited_urls']_vars
    /\ [][/\ At("_fetch_subcategories_from_api_dir", "fetch")
          /\ Top.k = 0
          /\ Top.url \in visited_urls
          => /\ Len(stack') = Len(stack) - 1
             /\ ret' = RetList(<<>>)
             /\ lastReq' = NoReq
             /\ requested' = requested]_vars

\* every request fails on transport; the call on the standard directory URL
\* for the second product has returned on the guard, without a request
C26_Witness ==
    /\ site = {RErr}
    /\ i = 2
    /\ At("_parse_api_categories", "after_std")
    /\ U("api-", "ecs", "02", 0) \in visited_urls
    /\ ret = RetList(<<>>)
    /\ lastReq = NoReq

\* ------------------------------------------------------------------ the candidates of the probe
\* range(1, 11) of the two loops that fill test_numbers
LowIds == 10

HundredIds == 10

\* the numbers of the files the program probes
all_test_numbers == TestNumbers(LowIds, HundredIds)

\* C27: the program's candidate list has exactly 20 pairwise different
\* numbers, 1 to 10 and 100 to 1000 in steps of 100, and not 0; every request
\* of the probe goes to the candidate of the loop position, built from the
\* base path and the numbering family of the directory URL, never to the
\* reserved id 0000; the probe holds and returns at most one node per
\* candidate handled, with pairwise different URLs.
C27_ProbeCandidatesFixed ==
    /\ [](/\ Len(all_test_numbers) = 20
          /\ \A j \in 1..20 : \A k \in (j + 1)..20 : all_test_numbers[j] # all_test_numbers[k]
          /\ {all_test_numbers[j] : j \in 1..20} = (1..10) \cup {100 * k : k \in 1..10})
    /\ [](Probing =>
            /\ Top.k \in 1..Len(test_numbers)
            /\ Len(Top.acc) <= Top.k
            /\ DistinctUrls(Top.acc))
    /\ [][Probing =>
            /\ lastReq'.url = U(_get_api_base_path(Top.url, Top.code), Top.code,
                                ProbePattern(Top.url, Top.code), test_numbers[Top.k])
            /\ ~IsReservedId(lastReq'.url)
            /\ ~Probing' => /\ Len(ret'.list) <= Len(test_numbers)
                            /\ DistinctUrls(ret'.list)]_vars

\* the probe has returned a node for every candidate
C27_Witness ==
    /\ At("_parse_api_categories", "after_std")
    /\ NodeUrls(ret.list) = [j \in 1..Len(test_numbers) |->
                               U("api-", "ecs", "02", test_numbers[j])]

\* ------------------------------------------------------------------ termination
\* Every request returns or fails (each has a timeout), and the program is
\* sequential: whenever it has a next step it takes one.
\* the pages of the sites of LiveSpec; a site there answers every request
\* with a transport error, or answers with a non-200 status or one more
\* response of LiveResponses
LiveResponses ==
    {RErr, RBad} \cup
    {ROk(pg) : pg \in {pgCaptcha, pgHome("ecs"), pgMenu("ecs"), pgDir("api-", "ecs"),
                       pgDirOv("api-", "ecs")}}

LiveInit ==
    /\ Init
    /\ Len(products) = 1
    /\ site \subseteq LiveResponses
    /\ RBad \in site \/ site = {RErr}

LiveSpec == LiveInit /\ [][Next]_vars /\ WF_vars(Next)

\* C28: every call of fetch_api_categories comes back to the loop of step 2,
\* with a record or with an exception.
C28_RunTerminates ==
    [](At("fetch_api_categories", "find") => <>At("main", "after_call"))

\* a run that has gone through every strategy and through the probe has
\* returned
C28_Witness ==
    /\ At("main", "after_call")
    /\ Len(attempted) = Len(CascadeOrder)
    /\ \E n \in {1, 2, 100} : U("api-", "ecs", "02", n) \in requested
    /\ U("doc", "ecs", "leftmenu", 0) \in requested

\* ------------------------------------------------------------------ cli.search_products
\* search_products(search_term, products_data) for the search terms "ecs"
\* and "ECS" on lists of at most MaxHits products
MaxHits == 2

\* str.lower() on the strings of the model
lower(s) ==
    CASE s = "ECS" -> "ecs"
      [] s = "ECS2" -> "ecs2"
      [] s = "OBS" -> "obs"
      [] OTHER -> s

\* s.startswith(t) for lower-case strings
startswith(s, t) == t = "ecs" /\ s \in {"ecs", "ecs2", "ecs server"}

\* t in s for lower-case strings
contains(s, t) == t = "ecs" /\ s \in {"ecs", "ecs2", "ecs server", "myecs", "my ecs"}

\* search_term_lower.replace('_', ' ').replace('-', ' ').split()
search_words(term_lower) == <<term_lower>>

SearchCodes == {"ecs", "ECS2", "myecs", "obs"}

SearchNames == {"ECS", "ecs server", "my ecs", "fuwuqi"}

SearchPool == {[name |-> n, product_code |-> c] : n \in SearchNames, c \in SearchCodes}

SearchInputs == UNION {[1..n -> SearchPool] : n \in 0..MaxHits}

\* the score search_products gives a product
score(product, search_term) ==
    LET search_term_lower == lower(search_term)
        name_lower == lower(product.name)
        code_lower == lower(product.product_code)
        words == search_words(search_term_lower)
        byCode == IF search_term_lower = code_lower THEN 1000
                  ELSE IF startswith(code_lower, search_term_lower) THEN 500
                  ELSE IF contains(code_lower, search_term_lower) THEN 200
                  ELSE 0
        byName == IF search_term_lower = name_lower THEN 800
                  ELSE IF startswith(name_lower, search_term_lower) THEN 400
                  ELSE IF contains(name_lower, search_term_lower) THEN 100
                  ELSE 0
        byWord(w) == (IF contains(code_lower, w) THEN 50 ELSE 0)
                     + (IF contains(name_lower, w) THEN 30 ELSE 0)
    IN byCode + byName + byWord(words[1])

\* list.sort(key=score, reverse=True): a stable sort, highest score first
RECURSIVE SortByScore(_, _)
SortByScore(list, term) ==
    IF list = <<>> THEN <<>>
    ELSE LET best == CHOOSE j \in 1..Len(list) :
                       /\ \A k \in 1..Len(list) : score(list[k], term) <= score(list[j], term)
                       /\ \A k \in 1..(j - 1) : score(list[k], term) < score(list[j], term)
         IN <<list[best]>> \o
            SortByScore(SubSeq(list, 1, best - 1) \o SubSeq(list, best + 1, Len(list)), term)

search_products(search_term, products_data) ==
    SortByScore(SelectSeq(products_data, LAMBDA p : score(p, search_term) > 0), search_term)

SearchInit ==
    /\ \E term \in {"ecs", "ECS"} : \E input \in SearchInputs :
         stack = <<[Frame("search_products", "enter", NoUrl, term) EXCEPT !.urls = input]>>
    /\ site = {}
    /\ products = <<>>
    /\ lines = <<>>
    /\ i = 1
    /\ results = <<>>
    /\ visited_urls = {}
    /\ ret = NoRet
    /\ api_doc_url = NoUrl
    /\ categories = <<>>
    /\ attempted = <<>>
    /\ gf = NoGf
    /\ requested = {}
    /\ lastReq = NoReq
    /\ raised = FALSE
    /\ engines = <<>>

SearchProducts ==
    /\ At("search_products", "enter")
    /\ ret' = RetList(search_products(Top.code, Top.urls))
    /\ stack' = SetTop([Top EXCEPT !.pc = "done"])
    /\ UNCHANGED dedupVars

SearchNext == SearchProducts

SearchSpec == SearchInit /\ [][SearchNext]_vars

\* C29: in the list search_products returns every product whose code equals
\* the search term, case ignored, comes before every product whose code does
\* not.
C29_ExactCodeFirst ==
    At("search_products", "done") =>
      \A j \in 1..Len(ret.list) : \A k \in 1..Len(ret.list) :
        /\ lower(ret.list[j].product_code) = lower(Top.code)
        /\ lower(ret.list[k].product_code) # lower(Top.code)
        => j < k

\* ------------------------------------------------------------------ filter_products
\* The two filter_products functions, of cli.py and of step3_main.py, on the
\* same products and the same category filter.  A filter string is a
\* sequence of at most MaxPieces pieces: a product code, a blank or a comma.
MaxPieces == 3

FilterPieces == {"ecs", "OBS", " ", ","}

FilterStrings == UNION {[1..n -> FilterPieces] : n \in 0..MaxPieces}

FilterPool ==
    {[name |-> "ECS", product_code |-> "ecs"], [name |-> "OBS", product_code |-> "OBS"],
     [name |-> "VPC"]}

FilterInputs == UNION {[1..n -> FilterPool] : n \in 0..MaxProducts}

\* s.split(',')
RECURSIVE split(_)
split(s) ==
    IF \A j \in 1..Len(s) : s[j] # "," THEN <<s>>
    ELSE LET j == CHOOSE n \in 1..Len(s) : s[n] = "," /\ \A m \in 1..(n - 1) : s[m] # ","
         IN <<SubSeq(s, 1, j - 1)>> \o split(SubSeq(s, j + 1, Len(s)))

\* c.strip()
RECURSIVE strip(_)
strip(c) ==
    IF c = <<>> THEN c
    ELSE IF Head(c) = " " THEN strip(Tail(c))
    ELSE IF c[Len(c)] = " " THEN strip(SubSeq(c, 1, Len(c) - 1))
    ELSE c

\* [c.strip().lower() for c in category_filter.split(',') if c.strip()]
category_codes(category_filter) ==
    LET fields == SelectSeq(split(category_filter), LAMBDA c : strip(c) # <<>>)
    IN [n \in 1..Len(fields) |-> [m \in 1..Len(strip(fields[n])) |-> lower(strip(fields[n])[m])]]

\* product.get('product_code', '').lower(), as a string of pieces
product_code(product) ==
    IF "product_code" \in DOMAIN product THEN <<lower(product.product_code)>> ELSE <<>>

\* cli.filter_products(products, category_filter, None); isNone tells that
\* category_filter is None
cli_filter_products(list, isNone, category_filter) ==
    LET given == ~isNone /\ category_filter # <<>>
        codes == IF given THEN category_codes(category_filter) ELSE <<>>
    IN SelectSeq(list, LAMBDA product :
         ~(given /\ codes # <<>> /\ \A n \in 1..Len(codes) : codes[n] # product_code(product)))

\* step3_main.filter_products(api_categories, category_filter)
step3_filter_products(api_categories, isNone, category_filter) ==
    IF isNone \/ category_filter = <<>> THEN api_categories
    ELSE LET codes == category_codes(category_filter)
         IN SelectSeq(api_categories, LAMBDA product :
              \E n \in 1..Len(codes) : codes[n] = product_code(product))

FilterInit ==
    /\ \E input \in FilterInputs : \E isNone \in BOOLEAN :
       \E category_filter \in (IF isNone THEN {<<>>} ELSE FilterStrings) :
         stack = <<[Frame("filter_products", "enter", NoUrl, "") EXCEPT
                      !.urls = input, !.k = IF isNone THEN 1 ELSE 0,
                      !.aux = category_filter]>>
    /\ site = {}
    /\ products = <<>>
    /\ lines = <<>>
    /\ i = 1
    /\ results = <<>>
    /\ visited_urls = {}
    /\ ret = NoRet
    /\ api_doc_url = NoUrl
    /\ categories = <<>>
    /\ attempted = <<>>
    /\ gf = NoGf
    /\ requested = {}
    /\ lastReq = NoReq
    /\ raised = FALSE
    /\ engines = <<>>

CliFilterProducts ==
    /\ At("filter_products", "enter")
    /\ stack' = SetTop([Top EXCEPT !.pc = "cli_done",
                          !.acc = cli_filter_products(Top.urls, Top.k = 1, Top.aux)])
    /\ UNCHANGED ret
    /\ UNCHANGED dedupVars

Step3FilterProducts ==
    /\ At("filter_products", "cli_done")
    /\ ret' = RetList(step3_filter_products(Top.urls, Top.k = 1, Top.aux))
    /\ stack' = SetTop([Top EXCEPT !.pc = "done"])
    /\ UNCHANGED dedupVars

FilterNext ==
    \/ CliFilterProducts
    \/ Step3FilterProducts

FilterSpec == FilterInit /\ [][FilterNext]_vars

\* C30: with no skip filter, cli.filter_products and
\* step3_main.filter_products return the same list for the same products
\* and the same category filter, also when the filter string yields no
\* product code.
C30_FiltersAgree ==
    At("filter_products", "done") => Top.acc = ret.list

\* the two functions agree whenever the filter is absent, empty or yields at
\* least one product code
FiltersAgreeOnCodes ==
    At("filter_products", "done")
      /\ (Top.k = 1 \/ Top.aux = <<>> \/ category_codes(Top.aux) # <<>>)
      => Top.acc = ret.list

====
